---- MODULE Spec2Model ----
(***************************************************************************)
(* State-machine model of the webhook event router: the webhook handler    *)
(* (github.ts) with the admission checks of WebhookSecurity                *)
(* (webhook-security.ts), EventProcessor (event-processor.ts) with its     *)
(* retry poll, and RetryHandler (retry.ts).                                *)
(*                                                                         *)
(* The process is one Node.js event loop: code between two real I/O waits  *)
(* (the transport's network call) runs without interleaving, so an action  *)
(* is one such run.  The only finer step is the gap, inside processRetry,  *)
(* between clearing next_retry_at and calling the transport: nothing of    *)
(* this process can run in that gap, but the process can stop there.       *)
(***************************************************************************)
EXTENDS Integers, Sequences, FiniteSets, TLC

VARIABLES
    events,             \* table events, row id = index
    delivery_attempts,  \* table delivery_attempts, row id = index
    now,                \* wall clock (CURRENT_TIMESTAMP / Date.now())
    requests,           \* webhook requests received so far, with processEvent's locals
    ticks,              \* running processRetries() invocations of the setInterval timer
    handed,             \* history: per delivery_attempts row, how often it was given to processRetry
    crashed,            \* the process has stopped
    crashes,            \* number of stops so far
    sr,                 \* inputs and output of one shouldRetry call
    bo,                 \* inputs and outputs of calculateDelay calls
    rateLimiter,     \* WebhookSecurity.rateLimiter: client ip -> {count, resetTime}
    ingest,             \* the security configuration, and (history) the last request the
                        \* admission checks saw with their verdict
    subscribers,        \* tables subscribers and transports: id -> {events, transport}
    encryption_key,     \* config.database.encryption_key of the running process
    queue,              \* InMemoryQueue: its options, messages and inFlight, the clock,
                        \* and (history) what send and receive returned
    poll,               \* one getPendingRetries call: its table, clock and limit, and its result
    crypt,              \* one encryptHeaders / decryptHeaders round: its inputs and results
    adapter,            \* a broker-backed queue adapter: the topic, the consumer's position,
                        \* the adapter's buffer, and (history) what receive returned
    service             \* SubscriberService: the tables subscribers and transports, the
                        \* cache _subscribers, and (history) what its calls returned

vars == <<events, delivery_attempts, now, requests, ticks, handed, crashed, crashes, sr,
          bo, rateLimiter, ingest, subscribers,
          encryption_key, queue, poll, service, crypt, adapter>>

(* the webhook pipeline with its admission checks and its queue *)
pipeline == <<events, delivery_attempts, now, requests, ticks, handed, crashed, crashes, sr,
              bo, rateLimiter, ingest, subscribers, encryption_key, queue>>

(* the components modelled apart from the webhook pipeline *)
apart == <<poll, service, crypt, adapter>>

----------------------------------------------------------------------------
(* Bounds of the model *)

MaxRequests == 2
MaxTime == 2
MaxDelay == 1
MaxCrashes == 1
MaxOverlap == 2
MaxAttemptInput == 4
JitterSteps == 10
requests_per_minute == 1
MaxDefects == 2
MaxDeletes == 1
MaxSends == 2
MaxCalls == 5
QueueTime == 4

(* Program constants *)

max_attempts == 3
batch_size == 10
payload_size_limit_mb == 10

(* the dead-letter threshold of the configuration, here equal to max_attempts *)
dead_letter_threshold == max_attempts

NULL == 0
NoCode == 0 - 1

retryable_status_codes == {500, 502, 503, 504, 408, 429}

----------------------------------------------------------------------------
(* Subscribers, as getSubscribers() returns them *)

Subscribers == {1, 2, 3, 4}

(* a subscribers row with its transports row: the event list the subscriber was
   given, how the column events holds it ("csv" as updateSubscriber writes it,
   "json" as createSubscriber writes it), and whether a transports row exists *)
SubscriberRow(list, format, transport) ==
    [events |-> list, format |-> format, transport |-> transport]

(* the rows when the process starts: subscriber 3 has no transports row *)
SubscriberTable ==
    [s \in Subscribers |->
        CASE s = 1 -> SubscriberRow(<<"push">>, "csv", TRUE)
          [] s = 2 -> SubscriberRow(<<"push", "pull_request">>, "csv", TRUE)
          [] s = 3 -> SubscriberRow(<<"issues">>, "csv", FALSE)
          [] OTHER -> SubscriberRow(<<"star">>, "csv", TRUE)]

(* the event list a subscriber was given *)
Subscribed(row) == { row.events[i] : i \in 1..Len(row.events) }

(* list.join(",") split at the commas *)
CsvTokens(list) == { list[i] : i \in 1..Len(list) }

(* JSON.stringify(list) split at the commas *)
JsonTokens(list) ==
    { (IF i = 1 THEN "[" ELSE "") \o "\"" \o list[i] \o "\""
          \o (IF i = Len(list) THEN "]" ELSE "") : i \in 1..Len(list) }

(* normalizeSubscriber: the column events split at the commas, whatever wrote it *)
normalizeEvents(row) ==
    IF row.format = "json" THEN JsonTokens(row.events) ELSE CsvTokens(row.events)

SubEvents(s) == normalizeEvents(subscribers[s])

HasTransport(s) == subscribers[s].transport

(* subscriber 4's transport row holds a config its transport cannot use (no
   usable url) *)
ValidConfig(s) == s # 4

(* The webhooks GitHub sends: a delivery id with its event type; a redelivery
   repeats both *)
Webhooks ==
    { [id |-> "D1", type |-> "push"],
      [id |-> "D2", type |-> "pull_request"],
      [id |-> "D3", type |-> "issues"],
      [id |-> "D4", type |-> "release"] }

(* What transport.deliver can return: DeliveryResult {success, statusCode} *)
Outcomes ==
    { [success |-> TRUE,  statusCode |-> 200],
      [success |-> FALSE, statusCode |-> 503],
      [success |-> FALSE, statusCode |-> 404] }

(* deliver with a config it cannot use: the catch returns a failure without a
   status code *)
InvalidConfigResult == [success |-> FALSE, statusCode |-> NoCode]

DeliverOutcomes(s) == IF ValidConfig(s) THEN Outcomes ELSE {InvalidConfigResult}

(* the webhooks of the sequential specification: also one for subscriber 4 *)
SeqWebhooks == Webhooks \cup { [id |-> "D5", type |-> "star"] }

----------------------------------------------------------------------------
(* RetryHandler *)

Truthy(n) == n # NoCode /\ n # 0

RetryConfig == [max_attempts |-> max_attempts, retryable |-> retryable_status_codes]

shouldRetryCfg(cfg, result, attempt) ==
    IF attempt >= cfg.max_attempts THEN FALSE
    ELSE IF result.success THEN FALSE
    ELSE IF Truthy(result.statusCode) /\ result.statusCode \notin cfg.retryable THEN FALSE
    ELSE TRUE

shouldRetry(result, attempt) == shouldRetryCfg(RetryConfig, result, attempt)

(* getNextRetryTime: now + calculateDelay(attempt); the jittered delay is any
   positive number of clock units up to MaxDelay *)
RetryTimes == { now + d : d \in 1..MaxDelay }

Min(a, b) == IF a <= b THEN a ELSE b

(* calculateDelay in whole milliseconds.  Math.random() is r / JitterSteps for
   an r in Randoms, so it lies in [0, 1) *)
Randoms == 0..(JitterSteps - 1)

RECURSIVE Pow2(_)
Pow2(n) == IF n <= 0 THEN 1 ELSE 2 * Pow2(n - 1)

BaseDelay(cfg, attempt) ==
    IF cfg.backoff_strategy = "exponential"
    THEN cfg.initial_delay_ms * Pow2(attempt - 1)
    ELSE cfg.initial_delay_ms * attempt

(* delay * 0.1 * (Math.random() * 2 - 1) *)
Jitter(delay, r) == (delay * (2 * r - JitterSteps)) \div (10 * JitterSteps)

calculateDelayUnclamped(cfg, attempt, r) ==
    BaseDelay(cfg, attempt) + Jitter(BaseDelay(cfg, attempt), r)

calculateDelayJitterLast(cfg, attempt, r) ==
    Min(BaseDelay(cfg, attempt), cfg.max_delay_ms) + Jitter(BaseDelay(cfg, attempt), r)

calculateDelay(cfg, attempt, r) ==
    Min(BaseDelay(cfg, attempt) + Jitter(BaseDelay(cfg, attempt), r), cfg.max_delay_ms)

getNextRetryTime(cfg, clock, attempt, r) == clock + calculateDelay(cfg, attempt, r)

(* deliverToSubscriber's call after a failed first attempt at time clock *)
FirstRetryTime(cfg, clock, r) == getNextRetryTime(cfg, clock, 2, r)

----------------------------------------------------------------------------
(* Table operations of EventProcessor *)

UniqueViolationOff(id) == FALSE

UniqueViolation(id) == \E i \in 1..Len(events) : events[i].github_delivery_id = id

updateEventStatus(ev, eventId, status) ==
    [ev EXCEPT ![eventId].status = status, ![eventId].processed_at = now]

StoredCode(code) == IF Truthy(code) THEN code ELSE NULL

AttemptRow(eventId, subscriberId, attempt, code) ==
    [event_id |-> eventId, subscriber_id |-> subscriberId, attempt_number |-> attempt,
     status_code |-> StoredCode(code), next_retry_at |-> NULL]

recordDeliveryAttempt(da, eventId, subscriberId, attempt, code) ==
    Append(da, AttemptRow(eventId, subscriberId, attempt, code))

SetNextRetryOfEvent(da, eventId, subscriberId, attempt, value) ==
    [i \in 1..Len(da) |->
        IF da[i].event_id = eventId /\ da[i].attempt_number = attempt
        THEN [da[i] EXCEPT !.next_retry_at = value]
        ELSE da[i]]

SetNextRetry(da, eventId, subscriberId, attempt, value) ==
    [i \in 1..Len(da) |->
        IF da[i].event_id = eventId /\ da[i].subscriber_id = subscriberId
           /\ da[i].attempt_number = attempt
        THEN [da[i] EXCEPT !.next_retry_at = value]
        ELSE da[i]]

scheduleRetry(da, eventId, subscriberId, nextAttempt, retryAt) ==
    SetNextRetry(da, eventId, subscriberId, nextAttempt - 1, retryAt)

clearRetry(da, task) ==
    SetNextRetry(da, task.event_id, task.subscriber_id, task.next_attempt - 1, NULL)

(* the INSERT of an attempt row for subscriber s fails: its FOREIGN KEY names a
   subscribers row that is gone.  The INSERT in the try block throws, and so does
   the one in the catch block *)
ForeignKeyViolation(s) == s \notin DOMAIN subscribers

----------------------------------------------------------------------------
(* WebhookSecurity: the admission checks *)

webhook_secret == "core-secret"

ClientIPs == {"10.0.0.1", "10.0.0.2"}

(* the rate limiter's Map: client ip -> {count, resetTime}; NoEntry for an ip
   without an entry *)
NoEntry == [count |-> 0, resetTime |-> 0]

EmptyStore == [ip \in ClientIPs |-> NoEntry]

(* the 60000 ms window in clock units: longer than any retry delay *)
RateWindow == MaxDelay + 1

SecurityInputs ==
    { [ipWhitelist |-> w, enable_rate_limiting |-> e,
       requests_per_minute |-> requests_per_minute,
       payload_size_limit_mb |-> payload_size_limit_mb] :
         w \in {{}, {"10.0.0.1"}}, e \in BOOLEAN }

DefaultSecurity ==
    [ipWhitelist |-> {}, enable_rate_limiting |-> FALSE,
     requests_per_minute |-> requests_per_minute,
     payload_size_limit_mb |-> payload_size_limit_mb]

maxSize(cfg) == cfg.payload_size_limit_mb * 1024 * 1024

(* a header that is absent (or empty) *)
NoHeader == ""

(* HMAC-SHA-256 as a collision-free function of text and key; a signature
   header is its length in characters and its content *)
Hmac(text, secret) == <<text, secret>>

Digest(text, secret) == [length |-> 71, mac |-> Hmac(text, secret)]

NoSignature == [length |-> 0, mac |-> <<>>]

ShortSignature == [length |-> 10, mac |-> <<"abc">>]

(* what req.body holds: a Buffer with the body's bytes when express.raw parsed
   the request (content type application/json); otherwise what the body parser
   leaves for a request it skips, {} or undefined depending on its version *)
ParsedInputs == {"Buffer", "{}", "undefined"}

Bodies == {"{\"ref\":\"main\"}", "oops"}

Undefined == "<undefined>"

(* req.body instanceof Buffer ? req.body.toString("utf8") : JSON.stringify(req.body) *)
SignedText(req) ==
    IF req.parsed = "Buffer" THEN req.body
    ELSE IF req.parsed = "{}" THEN "{}"
    ELSE Undefined

(* hmac.update(undefined) and timingSafeEqual on buffers of different length
   throw; the catch returns false *)
verifySignature(payload, signature, secret) ==
    IF payload = Undefined THEN FALSE
    ELSE IF signature.length # Digest(payload, secret).length THEN FALSE
    ELSE signature.mac = Digest(payload, secret).mac

getClientIP(req) == req.ip

checkRateLimit(cfg, req, store) ==
    LET clientIP == getClientIP(req)
        existing == store[clientIP]
    IN  IF existing = NoEntry \/ existing.resetTime <= now
        THEN [blocked |-> FALSE,
              store |-> [store EXCEPT ![clientIP] =
                            [count |-> 1, resetTime |-> now + RateWindow]]]
        ELSE [blocked |-> existing.count + 1 > cfg.requests_per_minute,
              store |-> [store EXCEPT ![clientIP].count = @ + 1]]

Invalid(statusCode, store) == [valid |-> FALSE, statusCode |-> statusCode, store |-> store]

validateRequest(cfg, req, store, secret) ==
    IF cfg.ipWhitelist # {} /\ getClientIP(req) \notin cfg.ipWhitelist
    THEN Invalid(403, store)
    ELSE LET rateLimitResult ==
                 IF cfg.enable_rate_limiting THEN checkRateLimit(cfg, req, store)
                 ELSE [blocked |-> FALSE, store |-> store]
         IN  IF rateLimitResult.blocked THEN Invalid(429, rateLimitResult.store)
             ELSE IF req.contentLength > maxSize(cfg) THEN Invalid(413, rateLimitResult.store)
             ELSE IF req.signature = NoSignature THEN Invalid(401, rateLimitResult.store)
             ELSE IF ~verifySignature(SignedText(req), req.signature, secret)
                  THEN Invalid(401, rateLimitResult.store)
             ELSE [valid |-> TRUE, statusCode |-> 0, store |-> rateLimitResult.store]

NoExchange == [phase |-> "none"]


----------------------------------------------------------------------------
(* The webhook handler and processEvent *)

Matching(type) == { s \in DOMAIN subscribers : type \in SubEvents(s) }

Result(s, success, nextRetryAt) ==
    [subscriberId |-> s, success |-> success, nextRetryAt |-> nextRetryAt]

FinalStatusAnySuccess(results) ==
    IF \E r \in results : r.success THEN "completed"
    ELSE IF \E r \in results : r.nextRetryAt # NULL THEN "pending"
    ELSE "failed"

FinalStatus(results) ==
    IF \A r \in results : r.success THEN "completed"
    ELSE IF \E r \in results : r.nextRetryAt # NULL THEN "pending"
    ELSE "failed"

ResponseStatus(results) ==
    LET hasFailures == \E r \in results : ~r.success
        hasRetries == \E r \in results : r.nextRetryAt # NULL
    IN  IF hasFailures /\ ~hasRetries THEN 500
        ELSE IF hasFailures /\ hasRetries THEN 202
        ELSE 200

(* the counts of the response body *)
ResponseBody(results) ==
    [subscribers |-> Cardinality(results),
     successful |-> Cardinality({ r \in results : r.success }),
     failed |-> Cardinality({ r \in results : ~r.success }),
     retries |-> Cardinality({ r \in results : r.nextRetryAt # NULL })]

RECURSIVE RecordAll(_, _, _)
RecordAll(da, eventId, subs) ==
    IF subs = {} THEN da
    ELSE LET s == CHOOSE x \in subs : \A y \in subs : x <= y
         IN  RecordAll(recordDeliveryAttempt(da, eventId, s, 1, NoCode), eventId, subs \ {s})

Zeros(n) == [i \in 1..n |-> 0]

Request(d, type, eventId, inflight, results, response) ==
    [delivery_id |-> d, event_type |-> type, event_id |-> eventId,
     inflight |-> inflight, results |-> results, response |-> response]

(* JSON.stringify of a header map: its name/value pairs; a property whose value
   is undefined is left out *)
JsonStringify(headers) == { <<n, headers[n]>> : n \in { m \in DOMAIN headers : headers[m] # Undefined } }

(* JSON.parse of such a text *)
JsonParse(text) == [n \in { p[1] : p \in text } |-> (CHOOSE p \in text : p[1] = n)[2]]

(* toString("hex"), and Buffer.from(x, "hex"), which decodes the hex digits and
   ignores whatever follows them *)
ToHex(bytes) == [hex |-> bytes, rest |-> ""]

FromHex(string) == string.hex

AAD == "github-event-router-headers"

(* the tag lengths in bytes that decipher.setAuthTag accepts for aes-256-gcm
   when createDecipheriv is given no authTagLength *)
ValidTagLengths == {4, 8, 12, 13, 14, 15, 16}

TagLength == 16

(* pbkdf2Sync(secret, salt, ...) *)
deriveKey(secret, salt) == [secret |-> secret, salt |-> salt]

(* the GCM authentication tag over ciphertext, iv and AAD under key, cut to
   length bytes *)
AuthTag(ciphertext, key, iv, length) ==
    [mac |-> [ciphertext |-> ciphertext, key |-> key, iv |-> iv, aad |-> AAD],
     length |-> length]

encryptData(data, secret, salt, iv) ==
    LET key == deriveKey(secret, salt)
        ciphertext == [plain |-> data, key |-> key, iv |-> iv, intact |-> TRUE]
    IN  [encrypted |-> ToHex(ciphertext),
         iv |-> ToHex(iv),
         tag |-> ToHex(AuthTag(ciphertext, key, iv, TagLength)),
         salt |-> ToHex(salt)]

Failed == [ok |-> FALSE]

(* decipher.final() verifies the bytes of the given tag against the tag it
   computes, over the given tag's length *)
decryptData(encryptedData, secret) ==
    LET salt == FromHex(encryptedData.salt)
        iv == FromHex(encryptedData.iv)
        tag == FromHex(encryptedData.tag)
        key == deriveKey(secret, salt)
        ciphertext == FromHex(encryptedData.encrypted)
    IN  IF /\ tag.length \in ValidTagLengths
           /\ tag = AuthTag(ciphertext, key, iv, tag.length)
        THEN [ok |-> TRUE, data |-> ciphertext.plain]
        ELSE Failed

(* encryptHeaders: AES-256-GCM under a key derived from the encryption key and
   a random salt, with a random iv; the result is the JSON text of the four
   hex fields *)
encryptHeaders(headers, secret, salt, iv) ==
    [json |-> TRUE, fields |-> encryptData(JsonStringify(headers), secret, salt, iv)]

(* decryptHeaders: the header map, or Failed where the code throws *)
decryptHeaders(encryptedHeadersString, secret) ==
    IF ~encryptedHeadersString.json THEN Failed
    ELSE LET decrypted == decryptData(encryptedHeadersString.fields, secret)
         IN  IF decrypted.ok THEN [ok |-> TRUE, headers |-> JsonParse(decrypted.data)]
             ELSE Failed

(* the headers the handler forwards, and the salt and iv storeEvent's
   encryptHeaders drew *)
ForwardedHeaders == [n \in {"x-github-event"} |-> "push"]

Salts == {"salt-1", "salt-2"}
Ivs == {"iv-1", "iv-2"}

(* decryptHeaders returns (the authentication tag verifies) rather than throws *)
Decrypts(headers_data) == decryptHeaders(headers_data, encryption_key).ok

EventRow(d, type, status, processedAt) ==
    [github_delivery_id |-> d, event_type |-> type, status |-> status,
     processed_at |-> processedAt,
     headers_data |-> encryptHeaders(ForwardedHeaders, encryption_key, "salt-1", "iv-1")]

storeEvent(d, type) == Append(events, EventRow(d, type, "pending", NULL))

Busy == \E t \in DOMAIN ticks : ticks[t].pc = "cleared"

(* the handler after the admission checks, for delivery id d and event type type:
   processEvent up to its first transport call *)
Accept(d, type) ==
    /\ IF UniqueViolation(d)
       THEN /\ requests' = Append(requests, Request(d, type, NULL, {}, {}, 500))
            /\ UNCHANGED <<events, delivery_attempts, handed>>
       ELSE LET eventId == Len(events) + 1
                stored == storeEvent(d, type)
                subs == Matching(type)
                bare == { s \in subs : ~HasTransport(s) }
                sent == subs \ bare
                results == { Result(s, FALSE, NULL) : s \in bare }
            IN  IF subs = {}
                THEN /\ events' = updateEventStatus(stored, eventId, "completed")
                     /\ requests' = Append(requests, Request(d, type, eventId, {}, {}, 200))
                     /\ UNCHANGED <<delivery_attempts, handed>>
                ELSE /\ delivery_attempts' = RecordAll(delivery_attempts, eventId, bare)
                     /\ handed' = handed \o Zeros(Cardinality(bare))
                     /\ IF sent = {}
                        THEN /\ events' = updateEventStatus(stored, eventId, FinalStatus(results))
                             /\ requests' = Append(requests,
                                    Request(d, type, eventId, {}, results, ResponseStatus(results)))
                        ELSE /\ events' = updateEventStatus(stored, eventId, "processing")
                             /\ requests' = Append(requests,
                                    Request(d, type, eventId, sent, results, 0))

(* POST /webhook/github of a request that passes the admission checks, with rate
   limiting and the ip whitelist switched off (the default configuration) *)
ReceiveWebhook(d, type) ==
    /\ ~crashed /\ ~Busy
    /\ Len(requests) < MaxRequests
    /\ Accept(d, type)
    /\ UNCHANGED <<now, ticks, crashed, crashes, sr, bo, rateLimiter, ingest, subscribers,
                   encryption_key, queue, apart>>

(* transport.deliver of request r for subscriber s returns o: the rest of
   deliverToSubscriber and, after the last one, the rest of processEvent and the
   handler's response *)
DeliveryReturns(r, s, o) ==
    /\ ~crashed /\ ~Busy
    /\ r \in 1..Len(requests)
    /\ s \in requests[r].inflight
    /\ o \in DeliverOutcomes(s)
    /\ LET eventId == requests[r].event_id
           retry == ~o.success /\ shouldRetry(o, 1)
           recorded == recordDeliveryAttempt(delivery_attempts, eventId, s, 1, o.statusCode)
       IN  \E at \in (IF retry /\ ~ForeignKeyViolation(s) THEN RetryTimes ELSE {NULL}) :
             LET results == IF ForeignKeyViolation(s) THEN requests[r].results
                            ELSE requests[r].results \cup {Result(s, o.success, at)}
                 inflight == requests[r].inflight \ {s}
             IN  /\ delivery_attempts' =
                        IF ForeignKeyViolation(s) THEN delivery_attempts
                        ELSE IF retry THEN scheduleRetry(recorded, eventId, s, 2, at)
                        ELSE recorded
                 /\ handed' = IF ForeignKeyViolation(s) THEN handed ELSE Append(handed, 0)
                 /\ IF inflight = {}
                    THEN /\ events' = updateEventStatus(events, eventId, FinalStatus(results))
                         /\ requests' = [requests EXCEPT ![r].inflight = {},
                                            ![r].results = results,
                                            ![r].response = ResponseStatus(results)]
                    ELSE /\ events' = events
                         /\ requests' = [requests EXCEPT ![r].inflight = inflight,
                                            ![r].results = results]
    /\ UNCHANGED <<now, ticks, crashed, crashes, sr, bo, rateLimiter, ingest, subscribers,
                   encryption_key, queue, apart>>

(* what the handler parses: req.body.toString("utf8") *)
HandlerText(req) == IF req.parsed = "Buffer" THEN req.body ELSE "[object Object]"

JsonValid(text) == text \in {"{}", "{\"ref\":\"main\"}"}

(* the handler's checks before processEvent: the status it answers with, 0 when
   the request goes on to processEvent *)
AdmissionStatus(req, validation) ==
    IF ~validation.valid THEN validation.statusCode
    ELSE IF req.event = NoHeader \/ req.delivery = NoHeader THEN 400
    ELSE IF req.parsed = "undefined" THEN 500
    ELSE IF ~JsonValid(HandlerText(req)) THEN 400
    ELSE 0

RejectAfterStore(req, status) ==
    /\ requests' = Append(requests, Request(req.delivery, req.event, NULL, {}, {}, status))
    /\ events' = storeEvent(req.delivery, req.event)
    /\ UNCHANGED <<delivery_attempts, handed>>

(* the handler returns res.status(status) before processEvent is called *)
Reject(req, status) ==
    /\ requests' = Append(requests, Request(req.delivery, req.event, NULL, {}, {}, status))
    /\ UNCHANGED <<events, delivery_attempts, handed>>

(* POST /webhook/github of any request: the admission checks, then the handler
   up to the first transport call of processEvent *)
HandleRequest(req) ==
    /\ ~crashed /\ ~Busy
    /\ Len(requests) < MaxRequests
    /\ LET validation == validateRequest(ingest.security, req, rateLimiter, webhook_secret)
           status == AdmissionStatus(req, validation)
       IN  /\ rateLimiter' = validation.store
           /\ ingest' = [ingest EXCEPT !.last = [phase |-> "done", req |-> req,
                                                 valid |-> validation.valid,
                                                 status |-> status]]
           /\ IF status # 0 THEN Reject(req, status)
              ELSE Accept(req.delivery, req.event)
    /\ UNCHANGED <<now, ticks, crashed, crashes, sr, bo, subscribers, encryption_key, queue, apart>>

(* the requests a client can send: a well-formed, correctly signed request
   changed in at most MaxDefects of its attributes *)
SignatureKinds == {"signed", "wrong secret", "signs {}", "short", "none"}

MakeSignature(kind, body) ==
    CASE kind = "signed" -> Digest(body, webhook_secret)
      [] kind = "wrong secret" -> Digest(body, "wrong")
      [] kind = "signs {}" -> Digest("{}", webhook_secret)
      [] kind = "short" -> ShortSignature
      [] OTHER -> NoSignature

GoodChoice ==
    [ip |-> "10.0.0.1", contentLength |-> maxSize(DefaultSecurity), signature |-> "signed",
     parsed |-> "Buffer", body |-> "{\"ref\":\"main\"}", event |-> "push", delivery |-> "D1"]

Choices ==
    [ip : ClientIPs,
     contentLength : {maxSize(DefaultSecurity), maxSize(DefaultSecurity) + 1},
     signature : SignatureKinds,
     parsed : ParsedInputs,
     body : Bodies,
     event : {"push", NoHeader},
     delivery : {"D1", NoHeader}]

Defects(c) == Cardinality({ f \in DOMAIN c : c[f] # GoodChoice[f] })

RequestInputs ==
    { [c EXCEPT !.signature = MakeSignature(c.signature, c.body)] :
        c \in { x \in Choices : Defects(x) <= MaxDefects } }

----------------------------------------------------------------------------
(* The retry poll: processRetries and processRetry *)

IdleTick == [pc |-> "idle", batch |-> <<>>, idx |-> 0]

(* no getPendingRetries call is modelled apart *)
PollIdle == [phase |-> "none"]

(* no SubscriberService is modelled apart *)
ServiceIdle == [phase |-> "none"]

(* no encryption round is modelled apart *)
CryptIdle == [phase |-> "none"]

(* no broker-backed adapter is modelled apart *)
AdapterIdle == [phase |-> "none"]

ApartIdle ==
    poll = PollIdle /\ service = ServiceIdle /\ crypt = CryptIdle /\ adapter = AdapterIdle

(* the row field of a task whose source row has been deleted *)
NoRow == 0

NextAttemptSkips(row) == row.attempt_number + 2

NextAttempt(row) == row.attempt_number + 1

Task(da, i) ==
    [event_id |-> da[i].event_id, subscriber_id |-> da[i].subscriber_id,
     next_attempt |-> NextAttempt(da[i]), row |-> i]

(* SQLite's datetime(x): x cut to whole seconds (fractions of a second are
   dropped); perSecond is the number of clock units in a second *)
datetime(t, perSecond) == (t \div perSecond) * perSecond

(* WHERE next_retry_at IS NOT NULL AND datetime(next_retry_at) <= datetime('now') *)
DueAt(da, clock, perSecond) ==
    { i \in 1..Len(da) :
        /\ da[i].next_retry_at # NULL
        /\ datetime(da[i].next_retry_at, perSecond) <= datetime(clock, perSecond) }

(* the pipeline's clock counts whole seconds *)
Due(da) == DueAt(da, now, 1)

(* ORDER BY next_retry_at LIMIT ?: the rows of due ascending in next_retry_at,
   equal times in row id order (the scan of the index on next_retry_at), cut to
   limit *)
Ordered(da, due, limit) ==
    LET n == Cardinality(due)
        orders == { f \in [1..n -> due] :
                      /\ \A i, j \in 1..n : i # j => f[i] # f[j]
                      /\ \A i, j \in 1..n :
                            i < j => \/ da[f[i]].next_retry_at < da[f[j]].next_retry_at
                                     \/ /\ da[f[i]].next_retry_at = da[f[j]].next_retry_at
                                        /\ f[i] < f[j] }
    IN  { [k \in 1..Min(n, limit) |-> f[k]] : f \in orders }

getPendingRetries(da, clock, perSecond, limit) ==
    { [k \in DOMAIN f |-> Task(da, f[k])] : f \in Ordered(da, DueAt(da, clock, perSecond), limit) }

PendingRetries(da) == getPendingRetries(da, now, 1, batch_size)

(* processRetry's first statement for the idx-th task of tick t's batch: the
   schedule of the source row is cleared; the transport is not yet called *)
BeginTask(t, batch, idx, da, h) ==
    /\ ticks' = [ticks EXCEPT ![t] = [pc |-> "cleared", batch |-> batch, idx |-> idx]]
    /\ delivery_attempts' = clearRetry(da, batch[idx])
    /\ handed' = IF batch[idx].row = NoRow THEN h ELSE [h EXCEPT ![batch[idx].row] = @ + 1]

(* the for loop of processRetries after the task at idx: the next task, or the end *)
AfterTask(t, da, h) ==
    IF ticks[t].idx < Len(ticks[t].batch)
    THEN BeginTask(t, ticks[t].batch, ticks[t].idx + 1, da, h)
    ELSE /\ ticks' = [ticks EXCEPT ![t] = IdleTick]
         /\ delivery_attempts' = da
         /\ handed' = h

FreeSlot(t) ==
    /\ ticks[t].pc = "idle"
    /\ \A u \in DOMAIN ticks : u < t => ticks[u].pc # "idle"

(* the interval timer fires processRetries: the SELECT, and processRetry of the
   first row up to the clearing of its schedule *)
RetryPoll(t) ==
    /\ ~crashed /\ ~Busy
    /\ FreeSlot(t)
    /\ \E batch \in PendingRetries(delivery_attempts) :
          /\ Len(batch) > 0
          /\ BeginTask(t, batch, 1, delivery_attempts, handed)
    /\ UNCHANGED <<events, now, requests, crashed, crashes, sr, bo, rateLimiter, ingest, subscribers,
                   encryption_key, queue, apart>>

(* processRetry from the subscriber lookup to the call of transport.deliver *)
RetryStartDelivery(t) ==
    /\ ~crashed
    /\ ticks[t].pc = "cleared"
    /\ LET task == ticks[t].batch[ticks[t].idx]
       IN  IF task.subscriber_id \notin DOMAIN subscribers \/ ~HasTransport(task.subscriber_id)
           THEN AfterTask(t, delivery_attempts, handed)
           ELSE IF ~Decrypts(events[task.event_id].headers_data)
           THEN AfterTask(t, delivery_attempts, handed)
           ELSE /\ ticks' = [ticks EXCEPT ![t].pc = "inflight"]
                /\ UNCHANGED <<delivery_attempts, handed>>
    /\ UNCHANGED <<events, now, requests, crashed, crashes, sr, bo, rateLimiter, ingest, subscribers,
                   encryption_key, queue, apart>>

(* transport.deliver of tick t's current task returns o: the rest of processRetry,
   then the loop's next task *)
RetryDeliveryReturns(t, o) ==
    /\ ~crashed /\ ~Busy
    /\ ticks[t].pc = "inflight"
    /\ o \in DeliverOutcomes(ticks[t].batch[ticks[t].idx].subscriber_id)
    /\ LET task == ticks[t].batch[ticks[t].idx]
           retry == ~o.success /\ shouldRetry(o, task.next_attempt)
           recorded == recordDeliveryAttempt(delivery_attempts, task.event_id,
                           task.subscriber_id, task.next_attempt, o.statusCode)
           h == Append(handed, 0)
       IN  IF ForeignKeyViolation(task.subscriber_id)
           THEN \* processRetry rejects; the catch of processRetries ends the poll
                /\ ticks' = [ticks EXCEPT ![t] = IdleTick]
                /\ UNCHANGED <<events, delivery_attempts, handed>>
           ELSE
           \E at \in (IF retry THEN RetryTimes ELSE {NULL}) :
             /\ events' = IF o.success
                          THEN updateEventStatus(events, task.event_id, "completed")
                          ELSE IF retry THEN events
                          ELSE updateEventStatus(events, task.event_id, "failed")
             /\ AfterTask(t,
                    IF retry
                    THEN scheduleRetry(recorded, task.event_id, task.subscriber_id,
                                       task.next_attempt + 1, at)
                    ELSE recorded,
                    h)
    /\ UNCHANGED <<now, requests, crashed, crashes, sr, bo, rateLimiter, ingest, subscribers,
                   encryption_key, queue, apart>>

----------------------------------------------------------------------------
(* Environment *)

AdvanceTimeTo(limit) ==
    /\ ~crashed /\ ~Busy
    /\ now < limit
    /\ now' = now + 1
    /\ UNCHANGED <<events, delivery_attempts, requests, ticks, handed, crashed, crashes, sr,
                   bo, rateLimiter, ingest, subscribers,
                   encryption_key, queue, apart>>

AdvanceTime == AdvanceTimeTo(MaxTime)

(* the process stops (kill, power loss) at any point; the tables survive *)
Crash ==
    /\ ~crashed
    /\ crashes < MaxCrashes
    /\ crashed' = TRUE
    /\ crashes' = crashes + 1
    /\ UNCHANGED <<events, delivery_attempts, now, requests, ticks, handed, sr, bo,
                   rateLimiter, ingest, subscribers,
                   encryption_key, queue, apart>>

(* a new process starts on the same tables: no request and no poll is running,
   and the rate limiter's memory is empty *)
Restart ==
    /\ crashed
    /\ crashed' = FALSE
    /\ ticks' = [t \in DOMAIN ticks |-> IdleTick]
    /\ requests' = [r \in 1..Len(requests) |-> [requests[r] EXCEPT !.inflight = {}]]
    /\ rateLimiter' = EmptyStore
    /\ UNCHANGED <<events, delivery_attempts, now, handed, crashes, sr, bo, ingest, subscribers,
                   encryption_key, queue, apart>>

(* the rows of da that DELETE FROM subscribers WHERE id = s leaves: the attempt
   rows of s go with it (FOREIGN KEY ... ON DELETE CASCADE) *)
Kept(da, s) == { i \in 1..Len(da) : da[i].subscriber_id # s }

(* the row id of row i among the kept rows, NoRow when it is deleted *)
Renumber(da, s, i) ==
    IF i \in Kept(da, s) THEN Cardinality({ j \in Kept(da, s) : j <= i }) ELSE NoRow

RECURSIVE KeptRows(_, _, _)
KeptRows(seq, da, s) ==
    IF seq = <<>> THEN <<>>
    ELSE LET rest == KeptRows(Tail(seq), Tail(da), s)
         IN  IF Head(da).subscriber_id # s THEN <<Head(seq)>> \o rest ELSE rest

(* DELETE /subscribers/:id: deleteSubscriber removes the transports row and the
   subscribers row and invalidates the cache; the subscriber's attempt rows are
   deleted by the cascade.  Batches already selected keep their tasks *)
DeleteSubscriber(s) ==
    /\ ~crashed /\ ~Busy
    /\ s \in DOMAIN subscribers
    /\ Cardinality(Subscribers \ DOMAIN subscribers) < MaxDeletes
    /\ subscribers' = [x \in DOMAIN subscribers \ {s} |-> subscribers[x]]
    /\ delivery_attempts' = KeptRows(delivery_attempts, delivery_attempts, s)
    /\ handed' = KeptRows(handed, delivery_attempts, s)
    /\ ticks' = [t \in DOMAIN ticks |->
                    [ticks[t] EXCEPT !.batch =
                        [k \in 1..Len(ticks[t].batch) |->
                            [ticks[t].batch[k] EXCEPT
                                !.row = Renumber(delivery_attempts, s, ticks[t].batch[k].row)]]]]
    /\ UNCHANGED <<events, now, requests, crashed, crashes, sr, bo, rateLimiter, ingest,
                   encryption_key, queue, apart>>

(* the process is stopped and started again with another encryption_key in its
   configuration: what was running is gone, the tables stay *)
Redeploy(key) ==
    /\ ~crashed
    /\ crashes < MaxCrashes
    /\ key # encryption_key
    /\ crashes' = crashes + 1
    /\ encryption_key' = key
    /\ ticks' = [t \in DOMAIN ticks |-> IdleTick]
    /\ requests' = [r \in 1..Len(requests) |-> [requests[r] EXCEPT !.inflight = {}]]
    /\ rateLimiter' = EmptyStore
    /\ UNCHANGED <<events, delivery_attempts, now, handed, crashed, sr, bo, ingest,
                   subscribers, queue, apart>>

----------------------------------------------------------------------------
(* InMemoryQueue.  Its methods are async functions without an await: each call
   runs to its end before any other call starts.  The clock is now *)

(* an option that the configuration does not give *)
Absent == NoCode

DefaultMaxRetries == 3
DefaultVisibilityTimeout == 30000
DefaultRetentionPeriod == 345600000

(* x || fallback *)
OrDefault(x, fallback) == IF Truthy(x) THEN x ELSE fallback

(* the constructor: this.options *)
QueueOptions(given) ==
    [maxRetries |-> OrDefault(given.maxRetries, DefaultMaxRetries),
     visibilityTimeout |-> OrDefault(given.visibilityTimeout, DefaultVisibilityTimeout),
     retentionPeriod |-> OrDefault(given.retentionPeriod, DefaultRetentionPeriod)]

(* a new queue built from the options given; sent, returns, deleted, last and
   calls are history *)
NewQueue(given) ==
    [phase |-> "open", given |-> given, options |-> QueueOptions(given),
     messages |-> <<>>, inFlight |-> {},
     sent |-> <<>>, returns |-> <<>>, deleted |-> {},
     last |-> [op |-> "none", id |-> 0, ms |-> 0, result |-> <<>>], calls |-> 0]

Ids(messages) == { messages[i].id : i \in 1..Len(messages) }

RECURSIVE Filter(_, _)
Filter(messages, keep) ==
    IF messages = <<>> THEN <<>>
    ELSE IF Head(messages).id \in keep
         THEN <<Head(messages)>> \o Filter(Tail(messages), keep)
         ELSE Filter(Tail(messages), keep)

(* cleanupExpiredMessages: messages older than the retention period leave
   messages and inFlight *)
cleanupExpiredMessages(q, clock) ==
    LET fresh == { q.messages[i].id : i \in { j \in 1..Len(q.messages) :
                      clock - q.messages[j].timestamp <= OrDefault(q.options.retentionPeriod,
                                                             DefaultRetentionPeriod) } }
    IN  [q EXCEPT !.messages = Filter(q.messages, fresh),
                  !.inFlight = q.inFlight \cap fresh]

visibleAtNow(clock, delayMs) == clock

(* send: options?.delayMs ? now + delayMs : now *)
visibleAt(clock, delayMs) == IF Truthy(delayMs) THEN clock + delayMs ELSE clock

(* send: the message enters the map under a fresh id, then the cleanup runs *)
send(q, data, delayMs, clock) ==
    LET id == Len(q.sent) + 1
        message == [id |-> id, data |-> data, timestamp |-> clock, attempts |-> 0,
                    visibleAt |-> visibleAt(clock, delayMs),
                    maxAttempts |-> OrDefault(q.options.maxRetries, DefaultMaxRetries)]
    IN  cleanupExpiredMessages([q EXCEPT !.messages = Append(q.messages, message)], clock)

VisibleAlways(msg, inFlight, clock) == TRUE

(* receive: msg.visibleAt <= now && !this.inFlight.has(id) *)
Visible(msg, inFlight, clock) == msg.visibleAt <= clock /\ msg.id \notin inFlight

(* the QueueMessage that receive returns for msg *)
Entry(msg) ==
    [id |-> msg.id, data |-> msg.data, timestamp |-> msg.timestamp,
     attempts |-> msg.attempts, maxAttempts |-> msg.maxAttempts]

(* receive's loop over messages.entries() from position i on *)
RECURSIVE Scan(_, _, _, _, _)
Scan(q, i, result, maxMessages, clock) ==
    IF i > Len(q.messages) \/ Len(result) >= maxMessages
    THEN [queue |-> q, result |-> result]
    ELSE IF Visible(q.messages[i], q.inFlight, clock)
         THEN LET leased == [q.messages[i] EXCEPT
                                !.visibleAt = clock + OrDefault(q.options.visibilityTimeout,
                                                                DefaultVisibilityTimeout),
                                !.attempts = @ + 1]
              IN  Scan([q EXCEPT !.messages[i] = leased,
                                 !.inFlight = q.inFlight \cup {leased.id}],
                       i + 1, Append(result, Entry(leased)), maxMessages, clock)
         ELSE Scan(q, i + 1, result, maxMessages, clock)

receive(q, maxMessages, clock) == Scan(q, 1, <<>>, OrDefault(maxMessages, 1), clock)

deleteKeepsLease(q, id) == [q EXCEPT !.messages = Filter(q.messages, Ids(q.messages) \ {id})]

(* delete *)
delete(q, id) ==
    [q EXCEPT !.messages = Filter(q.messages, Ids(q.messages) \ {id}),
              !.inFlight = q.inFlight \ {id}]

(* changeVisibility: only visibleAt changes *)
changeVisibility(q, id, ms, clock) ==
    [q EXCEPT !.messages = [i \in 1..Len(q.messages) |->
                               IF q.messages[i].id = id
                               THEN [q.messages[i] EXCEPT !.visibleAt = clock + ms]
                               ELSE q.messages[i]]]

(* getStats *)
getStats(q, clock) ==
    [approximate |-> Len(q.messages) - Cardinality(q.inFlight),
     inFlight |-> Cardinality(q.inFlight),
     delayed |-> Cardinality({ i \in 1..Len(q.messages) : q.messages[i].visibleAt > clock })]

Called(q, op, id, ms, result) ==
    [q EXCEPT !.last = [op |-> op, id |-> id, ms |-> ms, result |-> result],
              !.calls = q.calls + 1]

QueueFrame ==
    UNCHANGED <<events, delivery_attempts, now, requests, ticks, handed, crashed, crashes,
                sr, bo, rateLimiter, ingest, subscribers, encryption_key, apart>>

Send(data, delayMs) ==
    /\ queue.calls < MaxCalls
    /\ Len(queue.sent) < MaxSends
    /\ LET q == send(queue, data, delayMs, now)
           id == Len(queue.sent) + 1
       IN  queue' = Called([q EXCEPT
                              !.sent = Append(queue.sent,
                                              [data |-> data, at |-> now, delayMs |-> delayMs]),
                              !.returns = Append(queue.returns, 0)],
                           "send", id, delayMs, <<>>)
    /\ QueueFrame

Receive(maxMessages) ==
    /\ queue.calls < MaxCalls
    /\ LET out == receive(queue, maxMessages, now)
           got == { out.result[k].id : k \in 1..Len(out.result) }
       IN  queue' = Called([out.queue EXCEPT
                              !.returns = [id \in 1..Len(queue.returns) |->
                                              IF id \in got THEN queue.returns[id] + 1
                                              ELSE queue.returns[id]]],
                           "receive", 0, maxMessages, out.result)
    /\ QueueFrame

Delete(id) ==
    /\ queue.calls < MaxCalls
    /\ id \in 1..Len(queue.sent)
    /\ queue.returns[id] > 0
    /\ queue' = Called([delete(queue, id) EXCEPT !.deleted = queue.deleted \cup {id}],
                        "delete", id, 0, <<>>)
    /\ QueueFrame

(* a consumer changes the lease of a message it holds *)
ChangeVisibility(id, ms) ==
    /\ queue.calls < MaxCalls
    /\ id \in 1..Len(queue.sent)
    /\ queue.returns[id] > 0
    /\ id \notin queue.deleted
    /\ queue' = Called(changeVisibility(queue, id, ms, now), "changeVisibility", id, ms, <<>>)
    /\ QueueFrame

----------------------------------------------------------------------------
(* shouldRetry as a pure function of its inputs *)

StatusCodeInputs == {NoCode, 0, 200, 404, 429, 503}
RetryableInputs == { retryable_status_codes, retryable_status_codes \cup {0}, {} }

SrIdle == [phase |-> "none"]

ApplyShouldRetry ==
    /\ sr.phase = "in"
    /\ sr' = [sr EXCEPT !.phase = "out",
                        !.out = shouldRetryCfg(sr.cfg, sr.result, sr.attempt)]
    /\ UNCHANGED <<events, delivery_attempts, now, requests, ticks, handed, crashed, crashes,
                   bo, rateLimiter, ingest, subscribers,
                   encryption_key, queue, apart>>

----------------------------------------------------------------------------
(* calculateDelay and getNextRetryTime as pure functions of their inputs *)

StrategyInputs == {"exponential", "linear"}
InitialDelayInputs == {100, 500}
MaxDelayInputs == {1000, 30000}
ClockInputs == {0, 5000}

BoIdle == [phase |-> "none"]

LeastOf(S) == CHOOSE x \in S : \A y \in S : x <= y
GreatestOf(S) == CHOOSE x \in S : \A y \in S : x >= y

(* every value calculateDelay(attempt) can return under cfg *)
Delays(cfg, attempt) == { calculateDelay(cfg, attempt, r) : r \in Randoms }

ApplyBackoff ==
    /\ bo.phase = "in"
    /\ bo' = [bo EXCEPT !.phase = "out",
                        !.delay = calculateDelay(bo.cfg, bo.a, bo.r),
                        !.nextRetryAt = FirstRetryTime(bo.cfg, bo.clock, bo.r),
                        !.loA = LeastOf(Delays(bo.cfg, bo.a)),
                        !.hiA = GreatestOf(Delays(bo.cfg, bo.a)),
                        !.loB = LeastOf(Delays(bo.cfg, bo.b)),
                        !.hiB = GreatestOf(Delays(bo.cfg, bo.b))]
    /\ UNCHANGED <<events, delivery_attempts, now, requests, ticks, handed, crashed, crashes,
                   sr, rateLimiter, ingest, subscribers,
                   encryption_key, queue, apart>>

----------------------------------------------------------------------------
(* Specifications *)

InitialKey == "key-1"

NoQueue == [phase |-> "none"]

InitStores ==
    /\ events = <<>>
    /\ delivery_attempts = <<>>
    /\ now = 1
    /\ requests = <<>>
    /\ ticks = [t \in 1..MaxOverlap |-> IdleTick]
    /\ handed = <<>>
    /\ crashed = FALSE
    /\ crashes = 0
    /\ rateLimiter = EmptyStore
    /\ ingest = [security |-> DefaultSecurity, last |-> NoExchange]
    /\ subscribers = SubscriberTable
    /\ encryption_key = InitialKey
    /\ queue = NoQueue

InitTables == InitStores /\ ApartIdle

Init == InitTables /\ sr = SrIdle /\ bo = BoIdle

Next ==
    \/ \E w \in Webhooks : ReceiveWebhook(w.id, w.type)
    \/ \E r \in 1..MaxRequests, s \in Subscribers, o \in Outcomes : DeliveryReturns(r, s, o)
    \/ \E t \in 1..MaxOverlap : RetryPoll(t)
    \/ \E t \in 1..MaxOverlap : RetryStartDelivery(t)
    \/ \E t \in 1..MaxOverlap, o \in Outcomes : RetryDeliveryReturns(t, o)
    \/ AdvanceTime
    \/ Crash
    \/ Restart

Spec == Init /\ [][Next]_vars

InitShouldRetry ==
    /\ InitTables
    /\ bo = BoIdle
    /\ \E success \in BOOLEAN, code \in StatusCodeInputs, attempt \in 1..MaxAttemptInput,
          m \in 1..MaxAttemptInput, retryable \in RetryableInputs :
          sr = [phase |-> "in",
                result |-> [success |-> success, statusCode |-> code],
                attempt |-> attempt,
                cfg |-> [max_attempts |-> m, retryable |-> retryable],
                out |-> FALSE]

NextShouldRetry == ApplyShouldRetry

SpecShouldRetry == InitShouldRetry /\ [][NextShouldRetry]_vars

InitBackoff ==
    /\ InitTables
    /\ sr = SrIdle
    /\ \E strategy \in StrategyInputs, initial \in InitialDelayInputs,
          max \in MaxDelayInputs, clock \in ClockInputs,
          a \in 1..MaxAttemptInput, b \in 1..MaxAttemptInput, r \in Randoms :
          bo = [phase |-> "in",
                cfg |-> [backoff_strategy |-> strategy, initial_delay_ms |-> initial,
                         max_delay_ms |-> max],
                clock |-> clock, a |-> a, b |-> b, r |-> r,
                delay |-> 0, nextRetryAt |-> 0, loA |-> 0, hiA |-> 0, loB |-> 0, hiB |-> 0]

NextBackoff == ApplyBackoff

SpecBackoff == InitBackoff /\ [][NextBackoff]_vars

(* One process whose polls never overlap (each processRetries ends before the
   timer fires again) and that runs long enough for every attempt up to
   max_attempts *)
SeqTime == 1 + (max_attempts - 1) * MaxDelay

InitSeq ==
    /\ events = <<>>
    /\ delivery_attempts = <<>>
    /\ now = 1
    /\ requests = <<>>
    /\ ticks = [t \in {1} |-> IdleTick]
    /\ handed = <<>>
    /\ crashed = FALSE
    /\ crashes = 0
    /\ rateLimiter = EmptyStore
    /\ ingest = [security |-> DefaultSecurity, last |-> NoExchange]
    /\ subscribers = SubscriberTable
    /\ encryption_key = InitialKey
    /\ queue = NoQueue
    /\ ApartIdle
    /\ sr = SrIdle
    /\ bo = BoIdle

NextSeq ==
    \/ \E w \in SeqWebhooks : ReceiveWebhook(w.id, w.type)
    \/ \E r \in 1..MaxRequests, s \in Subscribers,
          o \in Outcomes \cup {InvalidConfigResult} : DeliveryReturns(r, s, o)
    \/ \E t \in DOMAIN ticks : RetryPoll(t)
    \/ \E t \in DOMAIN ticks : RetryStartDelivery(t)
    \/ \E t \in DOMAIN ticks, o \in Outcomes \cup {InvalidConfigResult} :
          RetryDeliveryReturns(t, o)
    \/ AdvanceTimeTo(SeqTime)

SpecSeq == InitSeq /\ [][NextSeq]_vars

(* The handler with its admission checks under each security configuration; the
   clock runs until a rate-limit window has ended *)
IngestTime == 1 + RateWindow

InitIngest ==
    /\ events = <<>>
    /\ delivery_attempts = <<>>
    /\ now = 1
    /\ requests = <<>>
    /\ ticks = [t \in {1} |-> IdleTick]
    /\ handed = <<>>
    /\ crashed = FALSE
    /\ crashes = 0
    /\ rateLimiter = EmptyStore
    /\ \E security \in SecurityInputs : ingest = [security |-> security, last |-> NoExchange]
    /\ subscribers = SubscriberTable
    /\ encryption_key = InitialKey
    /\ queue = NoQueue
    /\ ApartIdle
    /\ sr = SrIdle
    /\ bo = BoIdle

NextIngest ==
    \/ \E req \in RequestInputs : HandleRequest(req)
    \/ \E r \in 1..MaxRequests, s \in Subscribers, o \in Outcomes : DeliveryReturns(r, s, o)
    \/ AdvanceTimeTo(IngestTime)

SpecIngest == InitIngest /\ [][NextIngest]_vars

(* One process with polls that never overlap, while an operator deletes
   subscribers and redeploys with another encryption key *)
AdminWebhooks == { w \in Webhooks : w.type = "push" }

Keys == {InitialKey, "key-2"}

InitAdmin == InitSeq

NextAdmin ==
    \/ \E w \in AdminWebhooks : ReceiveWebhook(w.id, w.type)
    \/ \E r \in 1..MaxRequests, s \in Subscribers, o \in Outcomes : DeliveryReturns(r, s, o)
    \/ \E t \in DOMAIN ticks : RetryPoll(t)
    \/ \E t \in DOMAIN ticks : RetryStartDelivery(t)
    \/ \E t \in DOMAIN ticks, o \in Outcomes : RetryDeliveryReturns(t, o)
    \/ \E s \in Subscribers : DeleteSubscriber(s)
    \/ \E key \in Keys : Redeploy(key)
    \/ AdvanceTimeTo(SeqTime)

SpecAdmin == InitAdmin /\ [][NextAdmin]_vars

(* processEvent with event types that several subscribers of different kinds
   match: push reaches two working subscribers, one without transport and one
   with an unusable config; subscriber 5 was made by createSubscriber *)
FanoutTable ==
    [s \in Subscribers \cup {5} |->
        CASE s = 1 -> SubscriberRow(<<"push">>, "csv", TRUE)
          [] s = 2 -> SubscriberRow(<<"push", "pull_request">>, "csv", TRUE)
          [] s = 3 -> SubscriberRow(<<"push", "pull_request", "issues">>, "csv", FALSE)
          [] s = 4 -> SubscriberRow(<<"push", "star">>, "csv", TRUE)
          [] OTHER -> SubscriberRow(<<"pull_request", "release">>, "json", TRUE)]

InitFanout ==
    /\ events = <<>>
    /\ delivery_attempts = <<>>
    /\ now = 1
    /\ requests = <<>>
    /\ ticks = [t \in {1} |-> IdleTick]
    /\ handed = <<>>
    /\ crashed = FALSE
    /\ crashes = 0
    /\ rateLimiter = EmptyStore
    /\ ingest = [security |-> DefaultSecurity, last |-> NoExchange]
    /\ subscribers = FanoutTable
    /\ encryption_key = InitialKey
    /\ queue = NoQueue
    /\ ApartIdle
    /\ sr = SrIdle
    /\ bo = BoIdle

NextFanout ==
    \/ \E w \in Webhooks : ReceiveWebhook(w.id, w.type)
    \/ \E r \in 1..MaxRequests, s \in Subscribers,
          o \in Outcomes \cup {InvalidConfigResult} : DeliveryReturns(r, s, o)
    \/ AdvanceTime

SpecFanout == InitFanout /\ [][NextFanout]_vars

(* One InMemoryQueue under each configuration, used by producers and consumers
   while the clock runs *)
MaxRetriesInputs == {Absent, 0, 1}
VisibilityTimeoutInputs == {Absent, 1}
RetentionPeriodInputs == {Absent, 2}
DataInputs == {"a", "b"}
DelayInputs == {0, 2}
MaxMessagesInputs == {Absent, 2}

InitQueue ==
    /\ events = <<>>
    /\ delivery_attempts = <<>>
    /\ now = 1
    /\ requests = <<>>
    /\ ticks = [t \in {1} |-> IdleTick]
    /\ handed = <<>>
    /\ crashed = FALSE
    /\ crashes = 0
    /\ rateLimiter = EmptyStore
    /\ ingest = [security |-> DefaultSecurity, last |-> NoExchange]
    /\ subscribers = SubscriberTable
    /\ encryption_key = InitialKey
    /\ ApartIdle
    /\ sr = SrIdle
    /\ bo = BoIdle
    /\ \E m \in MaxRetriesInputs, v \in VisibilityTimeoutInputs, p \in RetentionPeriodInputs :
          queue = NewQueue([maxRetries |-> m, visibilityTimeout |-> v, retentionPeriod |-> p])

NextQueue ==
    \/ \E data \in DataInputs, delayMs \in DelayInputs : Send(data, delayMs)
    \/ \E maxMessages \in MaxMessagesInputs : Receive(maxMessages)
    \/ \E id \in 1..MaxSends : Delete(id)
    \/ \E id \in 1..MaxSends, ms \in DelayInputs : ChangeVisibility(id, ms)
    \/ AdvanceTimeTo(QueueTime)

SpecQueue == InitQueue /\ [][NextQueue]_vars

(* One process whose polls overlap (the interval timer does not wait for a
   running processRetries) and that runs long enough for every attempt up to
   max_attempts *)
InitOverlap == Init

NextOverlap ==
    \/ \E w \in AdminWebhooks : ReceiveWebhook(w.id, w.type)
    \/ \E r \in 1..MaxRequests, s \in Subscribers, o \in Outcomes : DeliveryReturns(r, s, o)
    \/ \E t \in 1..MaxOverlap : RetryPoll(t)
    \/ \E t \in 1..MaxOverlap : RetryStartDelivery(t)
    \/ \E t \in 1..MaxOverlap, o \in Outcomes : RetryDeliveryReturns(t, o)
    \/ AdvanceTimeTo(SeqTime)

SpecOverlap == InitOverlap /\ [][NextOverlap]_vars

-----------------------------------------------------------------------------
(* getPendingRetries (the SELECT of processRetries) as a pure function of the
   table, the clock and the limit; the clock runs in half seconds *)

MaxPollRows == 3
PerSecond == 2
PollTimes == (PerSecond)..(3 * PerSecond - 1)
LimitInputs == {1, 2}

(* the tables of MaxPollRows first-attempt rows, each with or without a retry time *)
PollTables ==
    { [i \in 1..MaxPollRows |->
          [AttemptRow(i, 1, 1, 503) EXCEPT !.next_retry_at = f[i]]] :
      f \in [1..MaxPollRows -> PollTimes \cup {NULL}] }

ApplyPoll ==
    /\ poll.phase = "in"
    /\ \E batch \in getPendingRetries(poll.table, poll.clock, PerSecond, poll.limit) :
          poll' = [poll EXCEPT !.phase = "out", !.batch = batch]
    /\ UNCHANGED <<pipeline, service, crypt, adapter>>

InitPoll ==
    /\ InitStores
    /\ sr = SrIdle
    /\ bo = BoIdle
    /\ \E table \in PollTables, clock \in PollTimes, limit \in LimitInputs :
          poll = [phase |-> "in", table |-> table, clock |-> clock, limit |-> limit,
                  batch |-> <<>>]
    /\ service = ServiceIdle
    /\ crypt = CryptIdle
    /\ adapter = AdapterIdle

NextPoll == ApplyPoll

SpecPoll == InitPoll /\ [][NextPoll]_vars

-----------------------------------------------------------------------------
(* validateRequest alone, called repeatedly under each rate-limit
   configuration, with a log of its verdicts *)

MaxValidations == 4
LimitConfigs == {0, 1, 2}

RateSecurityInputs ==
    { [ipWhitelist |-> w, enable_rate_limiting |-> TRUE, requests_per_minute |-> n,
       payload_size_limit_mb |-> payload_size_limit_mb] :
         w \in {{}, {"10.0.0.1"}}, n \in LimitConfigs }

(* well-formed requests from each client ip, signed or unsigned *)
RateRequests ==
    { r \in RequestInputs :
        /\ \A f \in DOMAIN r \ {"ip", "signature"} : r[f] = GoodChoice[f]
        /\ r.signature \in {MakeSignature("signed", r.body), NoSignature} }

Validate(req) ==
    /\ Len(ingest.log) < MaxValidations
    /\ LET validation == validateRequest(ingest.security, req, rateLimiter, webhook_secret)
       IN  /\ rateLimiter' = validation.store
           /\ ingest' = [ingest EXCEPT
                            !.last = [phase |-> "done", req |-> req,
                                      valid |-> validation.valid,
                                      status |-> validation.statusCode],
                            !.log = Append(@, [ip |-> getClientIP(req), at |-> now,
                                               statusCode |-> validation.statusCode])]
    /\ UNCHANGED <<events, delivery_attempts, now, requests, ticks, handed, crashed, crashes,
                   sr, bo, subscribers, encryption_key, queue, apart>>

InitRate ==
    /\ events = <<>>
    /\ delivery_attempts = <<>>
    /\ now = 1
    /\ requests = <<>>
    /\ ticks = [t \in {1} |-> IdleTick]
    /\ handed = <<>>
    /\ crashed = FALSE
    /\ crashes = 0
    /\ rateLimiter = EmptyStore
    /\ \E security \in RateSecurityInputs :
          ingest = [security |-> security, last |-> NoExchange, log |-> <<>>]
    /\ subscribers = SubscriberTable
    /\ encryption_key = InitialKey
    /\ queue = NoQueue
    /\ ApartIdle
    /\ sr = SrIdle
    /\ bo = BoIdle

NextRate ==
    \/ \E req \in RateRequests : Validate(req)
    \/ AdvanceTimeTo(IngestTime)

SpecRate == InitRate /\ [][NextRate]_vars

-----------------------------------------------------------------------------
(* SubscriberService: the tables subscribers and transports, the cache
   _subscribers, and the calls of one process; another process may write the
   same database *)

MaxSubscribers == 2
MaxServiceCalls == 5

ServiceIds == 1..(MaxSubscribers + 1)
EventLists == { <<"push">>, <<"push", "issues">> }

(* _subscribers === null *)
NoCache == [filled |-> FALSE]

(* the events of an updates object without the events property *)
NoEvents == <<>>

NewService ==
    [phase |-> "open",
     subscribers |-> <<>>,        \* table subscribers: id -> row (a function on the ids in use)
     transports |-> {},           \* table transports: rows {id, subscriber_id}
     sequence |-> [subscribers |-> 0, transports |-> 0],   \* AUTOINCREMENT
     _subscribers |-> NoCache,
     written |-> <<>>,            \* history: id -> the events last written and by which call
     last |-> [op |-> "none"],
     calls |-> 0]

(* SELECT ... FROM transports WHERE subscriber_id = ? *)
TransportsOf(svc, id) == { t \in svc.transports : t.subscriber_id = id }

(* sqliteSource: every subscribers row normalized, with its transports row *)
fetchSubscribers(svc) ==
    [id \in DOMAIN svc.subscribers |->
        [events |-> normalizeEvents(svc.subscribers[id]),
         transport |-> TransportsOf(svc, id) # {}]]

invalidateCacheOff(svc) == svc

invalidateCache(svc) == [svc EXCEPT !._subscribers = NoCache]

(* getSubscribers: the service after the call (cache filled) *)
getSubscribers(svc) ==
    IF svc._subscribers = NoCache
    THEN [svc EXCEPT !._subscribers = [filled |-> TRUE, list |-> fetchSubscribers(svc)]]
    ELSE svc

(* the row INSERT or UPDATE writes into the column events *)
StoredRow(list, format) == [events |-> list, format |-> format]

Extend(f, id, row) == [i \in DOMAIN f \cup {id} |-> IF i = id THEN row ELSE f[i]]

Without(f, id) == [i \in DOMAIN f \ {id} |-> f[i]]

(* createSubscriber: INSERT with JSON.stringify(events), INSERT of the transport,
   invalidateCache *)
createSubscriber(svc, list) ==
    LET id == svc.sequence.subscribers + 1
        tid == svc.sequence.transports + 1
    IN  invalidateCache(
          [svc EXCEPT !.subscribers = Extend(@, id, StoredRow(list, "json")),
                      !.transports = @ \cup {[id |-> tid, subscriber_id |-> id]},
                      !.sequence = [subscribers |-> id, transports |-> tid],
                      !.written = Extend(@, id, [events |-> list, by |-> "create"])])

(* the transaction of updateSubscriber throws: the INSERT into transports names
   a subscriber that does not exist (foreign key) *)
UpdateThrows(svc, id, updates) ==
    /\ updates.transport
    /\ TransportsOf(svc, id) = {}
    /\ id \notin DOMAIN svc.subscribers

(* updateSubscriber: UPDATE with events.join(","), UPDATE or INSERT of the
   transport, invalidateCache; a transaction that throws is rolled back and
   the cache stays *)
updateSubscriber(svc, id, updates) ==
    IF UpdateThrows(svc, id, updates) THEN svc
    ELSE LET exists == id \in DOMAIN svc.subscribers
             tid == svc.sequence.transports + 1
             insert == updates.transport /\ TransportsOf(svc, id) = {}
         IN  invalidateCache(
               [svc EXCEPT
                  !.subscribers =
                      IF exists /\ updates.events # NoEvents
                      THEN [@ EXCEPT ![id] = StoredRow(updates.events, "csv")]
                      ELSE @,
                  !.written =
                      IF exists /\ updates.events # NoEvents
                      THEN Extend(@, id, [events |-> updates.events, by |-> "update"])
                      ELSE @,
                  !.transports =
                      IF insert THEN @ \cup {[id |-> tid, subscriber_id |-> id]} ELSE @,
                  !.sequence.transports = IF insert THEN tid ELSE @])

deleteSubscriberOnly(svc, id) ==
    invalidateCache([svc EXCEPT !.subscribers = Without(@, id)])

(* deleteSubscriber: DELETE of the transports rows, DELETE of the subscriber,
   invalidateCache *)
deleteSubscriber(svc, id) ==
    invalidateCache(
      [svc EXCEPT !.transports = @ \ TransportsOf(svc, id),
                  !.subscribers = Without(@, id)])

(* one call of the service by this process, with what it returned *)
ServiceCall(svc, op, id, thrown, result) ==
    /\ service.phase = "open"
    /\ service.calls < MaxServiceCalls
    /\ service' = [svc EXCEPT !.last = [op |-> op, id |-> id, thrown |-> thrown,
                                        result |-> result],
                              !.calls = service.calls + 1]
    /\ UNCHANGED <<pipeline, poll, crypt, adapter>>

CreateSubscriber(list) ==
    /\ service.phase = "open"
    /\ service.sequence.subscribers < MaxSubscribers
    /\ ServiceCall(createSubscriber(service, list), "create",
                   service.sequence.subscribers + 1, FALSE, <<>>)

UpdateSubscriber(id, updates) ==
    /\ service.phase = "open"
    /\ updates.events # NoEvents \/ updates.transport
    /\ ServiceCall(updateSubscriber(service, id, updates), "update", id,
                   UpdateThrows(service, id, updates), <<>>)

RemoveSubscriber(id) ==
    /\ service.phase = "open"
    /\ ServiceCall(deleteSubscriber(service, id), "delete", id, FALSE, <<>>)

GetSubscribers ==
    /\ service.phase = "open"
    /\ ServiceCall(getSubscribers(service), "get", 0, FALSE,
                   getSubscribers(service)._subscribers.list)

(* another process with the same database file changes a subscriber's events *)
OtherProcessWrites(id, list) ==
    /\ service.phase = "open"
    /\ id \in DOMAIN service.subscribers
    /\ service.subscribers[id] # StoredRow(list, "csv")
    /\ service.written[id].by # "other"
    /\ service' = [service EXCEPT !.subscribers[id] = StoredRow(list, "csv"),
                                  !.written[id] = [events |-> list, by |-> "other"]]
    /\ UNCHANGED <<pipeline, poll, crypt, adapter>>

UpdateInputs ==
    { [events |-> e, transport |-> t] :
        e \in EventLists \cup {NoEvents}, t \in BOOLEAN }

InitService ==
    /\ InitStores
    /\ sr = SrIdle
    /\ bo = BoIdle
    /\ poll = PollIdle
    /\ crypt = CryptIdle
    /\ adapter = AdapterIdle
    /\ service = NewService

NextService ==
    \/ \E list \in EventLists : CreateSubscriber(list)
    \/ \E id \in ServiceIds, updates \in UpdateInputs : UpdateSubscriber(id, updates)
    \/ \E id \in ServiceIds : RemoveSubscriber(id)
    \/ GetSubscribers
    \/ \E id \in ServiceIds, list \in EventLists : OtherProcessWrites(id, list)

SpecService == InitService /\ [][NextService]_vars

-----------------------------------------------------------------------------
(* encryptHeaders and decryptHeaders as pure functions: a header map encrypted
   under one key, the stored string possibly damaged, and decrypted under a key *)

HeaderMaps ==
    { ForwardedHeaders,
      [n \in {"x-github-event", "x-hub-signature-256"} |->
          IF n = "x-github-event" THEN "issues" ELSE "sha256=ab"],
      <<>> }

Damages ==
    {"none", "encrypted", "iv", "salt", "tag", "short tag", "trailing characters", "not JSON"}

Other(x, S) == CHOOSE y \in S : y # x

(* the stored string after one of its parts was changed *)
Damage(string, kind) ==
    CASE kind = "encrypted" -> [string EXCEPT !.fields.encrypted.hex.intact = FALSE]
      [] kind = "iv" -> [string EXCEPT !.fields.iv.hex = Other(@, Ivs)]
      [] kind = "salt" -> [string EXCEPT !.fields.salt.hex = Other(@, Salts)]
      [] kind = "tag" -> [string EXCEPT !.fields.tag.hex.mac.aad = "changed"]
      [] kind = "short tag" -> [string EXCEPT !.fields.tag.hex.length = 4]
      [] kind = "trailing characters" -> [string EXCEPT !.fields.salt.rest = "zz"]
      [] kind = "not JSON" -> [string EXCEPT !.json = FALSE]
      [] OTHER -> string

ApplyCrypt ==
    /\ crypt.phase = "in"
    /\ LET string == Damage(encryptHeaders(crypt.headers, crypt.key, crypt.salt, crypt.iv),
                            crypt.damage)
       IN  crypt' = [crypt EXCEPT !.phase = "out",
                                  !.string = string,
                                  !.result = decryptHeaders(string, crypt.readKey)]
    /\ UNCHANGED <<pipeline, poll, service, adapter>>

InitCrypt ==
    /\ InitStores
    /\ sr = SrIdle
    /\ bo = BoIdle
    /\ poll = PollIdle
    /\ service = ServiceIdle
    /\ adapter = AdapterIdle
    /\ \E headers \in HeaderMaps, key \in Keys, salt \in Salts, iv \in Ivs,
          damage \in Damages, readKey \in Keys :
          crypt = [phase |-> "in", headers |-> headers, key |-> key, salt |-> salt,
                   iv |-> iv, damage |-> damage, readKey |-> readKey,
                   string |-> <<>>, result |-> Failed]

NextCrypt == ApplyCrypt

SpecCrypt == InitCrypt /\ [][NextCrypt]_vars

-----------------------------------------------------------------------------
(* The broker-backed queue adapters KafkaQueue, RedisQueue and
   AzureEventHubQueue: the topic (stream, hub) in the broker, the position up to
   which the broker has handed messages to this consumer, and the adapter's
   messageBuffer *)

AdapterKinds == {"kafka", "redis", "eventhub"}

Buffered(kind) == kind \in {"kafka", "eventhub"}

NewAdapter(kind) ==
    [phase |-> "open", kind |-> kind,
     topic |-> <<>>,            \* the messages sent, in order; a message's id is its index
     cursor |-> 0,              \* messages handed to the consumer (committed offset, PEL, checkpoint)
     messageBuffer |-> <<>>,
     consuming |-> FALSE,       \* isConsuming / subscription
     waiting |-> 0,             \* maxMessages of the receive() that is waiting for the buffer
     returned |-> <<>>]         \* history: what receive() returned, and when

(* delayUntil of send: options?.delayMs ? now + delayMs : null *)
delayUntil(delayMs, clock) == IF Truthy(delayMs) THEN clock + delayMs ELSE NULL

(* the message is skipped: delayUntil > new Date() *)
Delayed(msg, clock) == msg.delayUntil # NULL /\ msg.delayUntil > clock

Took(ids, clock) == [k \in 1..Len(ids) |-> [id |-> ids[k], at |-> clock]]

(* messageBuffer.splice(0, maxMessages), recorded in returned *)
Splice(a, maxMessages, clock) ==
    LET n == Min(maxMessages, Len(a.messageBuffer))
    IN  [a EXCEPT !.messageBuffer = SubSeq(@, n + 1, Len(@)),
                  !.returned = @ \o Took(SubSeq(a.messageBuffer, 1, n), clock),
                  !.waiting = 0]

AdapterFrame == UNCHANGED <<events, delivery_attempts, now, requests, ticks, handed, crashed,
                            crashes, sr, bo, rateLimiter, ingest, subscribers, encryption_key,
                            queue, poll, service, crypt>>

(* send: the message is appended to the topic with its delayUntil *)
AdapterSend(data, delayMs) ==
    /\ adapter.phase = "open"
    /\ Len(adapter.topic) < MaxSends
    /\ adapter' = [adapter EXCEPT !.topic =
                      Append(@, [data |-> data, delayUntil |-> delayUntil(delayMs, now)])]
    /\ AdapterFrame

(* KafkaQueue / AzureEventHubQueue receive up to its wait: enough buffered
   messages are returned at once, otherwise consuming starts and the call waits *)
ReceiveBegins(maxMessages) ==
    /\ adapter.phase = "open"
    /\ Buffered(adapter.kind)
    /\ adapter.waiting = 0
    /\ LET n == OrDefault(maxMessages, 1)
       IN  adapter' = IF Len(adapter.messageBuffer) >= n THEN Splice(adapter, n, now)
                      ELSE [adapter EXCEPT !.consuming = TRUE, !.waiting = n]
    /\ AdapterFrame

(* the end of the wait: whatever the buffer holds by now, up to maxMessages *)
ReceiveEnds ==
    /\ adapter.phase = "open"
    /\ adapter.waiting # 0
    /\ adapter' = Splice(adapter, adapter.waiting, now)
    /\ AdapterFrame

(* eachMessage (Kafka) / processEvents (Event Hub) for the next message of the
   topic: a delayed message is skipped, any other is buffered; the offset
   (checkpoint) moves past it either way *)
Consume ==
    /\ adapter.phase = "open"
    /\ Buffered(adapter.kind)
    /\ adapter.consuming
    /\ adapter.cursor < Len(adapter.topic)
    /\ LET id == adapter.cursor + 1
       IN  adapter' = [adapter EXCEPT
                          !.cursor = id,
                          !.messageBuffer = IF Delayed(adapter.topic[id], now) THEN @
                                            ELSE Append(@, id)]
    /\ AdapterFrame

(* the ids among from..to whose message is not skipped, in order *)
RECURSIVE Undelayed(_, _, _, _)
Undelayed(topic, from, to, clock) ==
    IF from > to THEN <<>>
    ELSE (IF Delayed(topic[from], clock) THEN <<>> ELSE <<from>>)
             \o Undelayed(topic, from + 1, to, clock)

(* RedisQueue.receive: XREADGROUP ">" COUNT maxMessages hands over the next
   entries of the stream (never one handed over before); delayed ones are
   skipped, the others returned *)
RedisReceive(maxMessages) ==
    /\ adapter.phase = "open"
    /\ adapter.kind = "redis"
    /\ LET n == Min(OrDefault(maxMessages, 1), Len(adapter.topic) - adapter.cursor)
           to == adapter.cursor + n
       IN  adapter' = [adapter EXCEPT
                          !.cursor = to,
                          !.returned = @ \o Took(Undelayed(adapter.topic, adapter.cursor + 1,
                                                           to, now), now)]
    /\ AdapterFrame

InitAdapter ==
    /\ InitStores
    /\ sr = SrIdle
    /\ bo = BoIdle
    /\ poll = PollIdle
    /\ service = ServiceIdle
    /\ crypt = CryptIdle
    /\ \E kind \in AdapterKinds : adapter = NewAdapter(kind)

NextAdapter ==
    \/ \E data \in DataInputs, delayMs \in DelayInputs \cup {Absent} : AdapterSend(data, delayMs)
    \/ \E maxMessages \in MaxMessagesInputs : ReceiveBegins(maxMessages)
    \/ ReceiveEnds
    \/ Consume
    \/ \E maxMessages \in MaxMessagesInputs : RedisReceive(maxMessages)
    \/ AdvanceTimeTo(QueueTime)

SpecAdapter == InitAdapter /\ [][NextAdapter]_vars

----------------------------------------------------------------------------
(* Claims *)

SamePair(i, j) ==
    /\ delivery_attempts[i].event_id = delivery_attempts[j].event_id
    /\ delivery_attempts[i].subscriber_id = delivery_attempts[j].subscriber_id

Rows == 1..Len(delivery_attempts)

AttemptNumbers(e, s) ==
    { delivery_attempts[i].attempt_number :
        i \in { j \in Rows : /\ delivery_attempts[j].event_id = e
                             /\ delivery_attempts[j].subscriber_id = s } }

(* C1: every change of an event's status follows one of the edges
   pending->processing, processing->completed, processing->failed,
   processing->dead_letter. *)
C1_StatusEdges ==
    [][\A e \in 1..Len(events) :
          events'[e].status # events[e].status =>
              <<events[e].status, events'[e].status>> \in
                  { <<"pending", "processing">>, <<"processing", "completed">>,
                    <<"processing", "failed">>, <<"processing", "dead_letter">> }]_vars

(* C2: once an event's status is completed or dead_letter, no later step changes
   the event row (status and processed_at stay as they were). *)
C2_TerminalImmutable ==
    [][\A e \in 1..Len(events) :
          events[e].status \in {"completed", "dead_letter"} => events'[e] = events[e]]_vars

(* C3: no delivery_attempts row is handed to processRetry by two polls: each
   scheduled retry is executed at most once. *)
C3_SingleOwner == \A i \in 1..Len(handed) : handed[i] <= 1

(* C4: for every (event, subscriber) pair with at least one attempt row, the set
   of attempt_number values is exactly {1..k} for some k >= 1. *)
C4_DenseAttempts ==
    \A e \in 1..Len(events), s \in Subscribers :
        AttemptNumbers(e, s) # {} =>
            \E k \in 1..Len(delivery_attempts) : AttemptNumbers(e, s) = 1..k

(* a pair whose first attempt was followed by a retry attempt *)
C4_Witness ==
    \E e \in 1..Len(events), s \in Subscribers : AttemptNumbers(e, s) = {1, 2}

(* C5: for every pair no two rows carry the same attempt_number, and rows are
   appended in strictly increasing attempt_number order. *)
C5_StrictlyIncreasing ==
    \A i, j \in Rows :
        (i < j /\ SamePair(i, j)) =>
            delivery_attempts[i].attempt_number < delivery_attempts[j].attempt_number

(* C6: for each pair at most one row has a non-null next_retry_at. *)
C6_OneScheduled ==
    \A i, j \in Rows :
        (i # j /\ SamePair(i, j)) =>
            ~(delivery_attempts[i].next_retry_at # NULL /\ delivery_attempts[j].next_retry_at # NULL)

(* the tasks of tick t's batch for which the transport has not been called *)
Unattempted(t) ==
    IF ticks[t].pc = "cleared" THEN ticks[t].idx..Len(ticks[t].batch)
    ELSE IF ticks[t].pc = "inflight" THEN (ticks[t].idx + 1)..Len(ticks[t].batch)
    ELSE {}

(* C7: if the process stops while a batch is being worked through, every task of
   the batch whose delivery has not been attempted still has a non-null
   next_retry_at <= now in the store. *)
C7_CrashKeepsSchedule ==
    crashed =>
        \A t \in DOMAIN ticks : \A k \in Unattempted(t) :
            LET row == delivery_attempts[ticks[t].batch[k].row]
            IN  row.next_retry_at # NULL /\ row.next_retry_at <= now

(* C8: a replay of an accepted webhook (same delivery id) is answered with 200 and
   causes no delivery: no transport call and no attempt row for the replay. *)
C8_ReplayAccepted ==
    \A r1, r2 \in 1..Len(requests) :
        (r1 < r2 /\ requests[r1].event_id # NULL
                 /\ requests[r2].delivery_id = requests[r1].delivery_id) =>
            /\ requests[r2].response = 200
            /\ requests[r2].inflight = {}
            /\ requests[r2].results = {}

(* C9: no two rows of the events table have the same github_delivery_id. *)
C9_UniqueDeliveryId ==
    \A i, j \in 1..Len(events) :
        i # j => events[i].github_delivery_id # events[j].github_delivery_id

(* a webhook was received again with the delivery id of a stored event *)
C9_Witness ==
    /\ Len(requests) = 2
    /\ requests[1].event_id # NULL
    /\ requests[2].delivery_id = requests[1].delivery_id
    /\ Len(events) = 1

(* C10: shouldRetry returns true exactly when the delivery failed, attempt <
   max_attempts, and the status code is absent or in retryable_status_codes, for
   every status code value including 0. *)
C10_ShouldRetryPolicy ==
    sr.phase = "out" =>
        sr.out = ( /\ ~sr.result.success
                   /\ sr.attempt < sr.cfg.max_attempts
                   /\ \/ sr.result.statusCode = NoCode
                      \/ sr.result.statusCode \in sr.cfg.retryable )

(* the rows of pair (e, s) *)
PairRows(da, e, s) ==
    { i \in 1..Len(da) : da[i].event_id = e /\ da[i].subscriber_id = s }

(* C11: when a delivery that kept failing with a retryable status makes its
   attempt number max_attempts (which is also the dead-letter threshold), the
   event's status is dead_letter after that attempt and no row of the pair keeps
   a non-null next_retry_at. *)
C11_DeadLetter ==
    [][ (Len(delivery_attempts') = Len(delivery_attempts) + 1) =>
          LET row == delivery_attempts'[Len(delivery_attempts')]
          IN  ( /\ row.attempt_number = max_attempts
                /\ row.attempt_number >= dead_letter_threshold
                /\ row.status_code \in retryable_status_codes ) =>
                   /\ events'[row.event_id].status = "dead_letter"
                   /\ \A i \in PairRows(delivery_attempts', row.event_id, row.subscriber_id) :
                          delivery_attempts'[i].next_retry_at = NULL ]_vars

(* C12: whenever an event's status is completed, every subscriber with attempt
   rows for that event has a successful attempt among them and no row with a
   scheduled retry. *)
C12_CompletedMeansDelivered ==
    \A e \in 1..Len(events) :
        events[e].status = "completed" =>
            \A s \in Subscribers :
                PairRows(delivery_attempts, e, s) # {} =>
                    /\ \E i \in PairRows(delivery_attempts, e, s) :
                           delivery_attempts[i].status_code = 200
                    /\ \A i \in PairRows(delivery_attempts, e, s) :
                           delivery_attempts[i].next_retry_at = NULL

(* C13: under exponential backoff the retry time written on the first attempt's
   row is the attempt time plus a delay within 10% of initial_delay_ms (90..110 ms
   for 100 ms). *)
C13_FirstRetryDelay ==
    (bo.phase = "out" /\ bo.cfg.backoff_strategy = "exponential") =>
        /\ 10 * (bo.nextRetryAt - bo.clock) >= 9 * bo.cfg.initial_delay_ms
        /\ 10 * (bo.nextRetryAt - bo.clock) <= 11 * bo.cfg.initial_delay_ms

(* C14: for every attempt >= 1 and both strategies calculateDelay(attempt) is at
   most max_delay_ms, and when 1.1 * base <= max_delay_ms (base the un-jittered
   delay) it lies between 0.9 * base and 1.1 * base. *)
C14_DelayBounds ==
    bo.phase = "out" =>
        LET base == BaseDelay(bo.cfg, bo.a)
        IN  /\ bo.delay <= bo.cfg.max_delay_ms
            /\ (11 * base <= 10 * bo.cfg.max_delay_ms) =>
                   (10 * bo.delay >= 9 * base /\ 10 * bo.delay <= 11 * base)

(* a later attempt whose jittered delay is below its base and needs no clamping *)
C14_Witness ==
    /\ bo.phase = "out"
    /\ bo.a >= 2
    /\ 11 * BaseDelay(bo.cfg, bo.a) <= 10 * bo.cfg.max_delay_ms
    /\ bo.delay < BaseDelay(bo.cfg, bo.a)

(* C15: for attempts a < b the least and the greatest delay calculateDelay can
   return do not decrease from a to b and never exceed max_delay_ms; once the
   un-jittered delay has reached max_delay_ms the returned delay is within 10% of
   max_delay_ms. *)
C15_Monotone ==
    bo.phase = "out" =>
        /\ bo.a < bo.b =>
               (bo.loA <= bo.loB /\ bo.hiA <= bo.hiB /\ bo.hiB <= bo.cfg.max_delay_ms)
        /\ BaseDelay(bo.cfg, bo.a) >= bo.cfg.max_delay_ms =>
               (10 * bo.delay >= 9 * bo.cfg.max_delay_ms /\ bo.delay <= bo.cfg.max_delay_ms)

(* two attempts a < b with the un-jittered delay of a at max_delay_ms: jitter
   pulls the returned delay below max_delay_ms, and the least delay still grows
   from a to b *)
C15_Witness ==
    /\ bo.phase = "out"
    /\ bo.a < bo.b
    /\ BaseDelay(bo.cfg, bo.a) >= bo.cfg.max_delay_ms
    /\ bo.loA < bo.loB
    /\ bo.delay < bo.cfg.max_delay_ms

(* C16: the response to a processed webhook is 200 when every matching
   subscriber's delivery succeeded or none matched, 202 when at least one failed
   and has a retry scheduled, and 500 only when all matching subscribers failed
   permanently; in its body subscribers = successful + failed and
   retries <= failed. *)
C16_ResponseCode ==
    \A q \in 1..Len(requests) :
        (requests[q].event_id # NULL /\ requests[q].response # 0) =>
            LET results == requests[q].results
                body == ResponseBody(results)
            IN  /\ (\A x \in results : x.success) => requests[q].response = 200
                /\ (\E x \in results : ~x.success /\ x.nextRetryAt # NULL) =>
                       requests[q].response = 202
                /\ requests[q].response = 500 =>
                       \A x \in results : ~x.success /\ x.nextRetryAt = NULL
                /\ body.subscribers = body.successful + body.failed
                /\ body.retries <= body.failed

IpRefused(cfg, req) == cfg.ipWhitelist # {} /\ req.ip \notin cfg.ipWhitelist

SignedByCore(req) == req.signature = Digest(req.body, webhook_secret)

EarlyRejections == {403, 429, 413}

(* C17: the admission checks run in the order ip allowlist, rate limit,
   content-length, presence of the signature, event-type and delivery-id headers,
   HMAC comparison, the first failing one deciding the answer; so a request
   lacking the event-type or delivery-id header gets 400 even when its signature
   is invalid. *)
C17_CheckOrder ==
    ingest.last.phase = "done" =>
        LET req == ingest.last.req
            status == ingest.last.status
            cfg == ingest.security
        IN  /\ IpRefused(cfg, req) => status = 403
            /\ (~IpRefused(cfg, req) /\ req.contentLength > maxSize(cfg)) =>
                   status \in {429, 413}
            /\ ( /\ req.event = NoHeader \/ req.delivery = NoHeader
                 /\ req.signature # NoSignature
                 /\ status \notin EarlyRejections ) => status = 400
            /\ ( /\ req.event # NoHeader /\ req.delivery # NoHeader
                 /\ ~SignedByCore(req)
                 /\ status \notin EarlyRejections ) => status = 401

(* C18: a request rejected with 400, 401, 403, 413 or 429 leaves the events and
   delivery_attempts tables unchanged and invokes no transport. *)
C18_RejectionFrame ==
    [][ ( /\ Len(requests') = Len(requests) + 1
          /\ requests'[Len(requests')].response \in {400, 401, 403, 413, 429} ) =>
            /\ events' = events
            /\ delivery_attempts' = delivery_attempts
            /\ requests'[Len(requests')].inflight = {}
            /\ \A q \in 1..Len(requests) : requests'[q] = requests[q] ]_vars

(* a request was rejected while an earlier webhook's event is stored and its
   deliveries are still running *)
C18_Witness ==
    /\ Len(requests) = 2
    /\ requests[2].response \in {400, 401, 403, 413, 429}
    /\ ingest.last.phase = "done"
    /\ ingest.last.status = requests[2].response
    /\ requests[1].inflight # {}
    /\ Len(events) = 1

(* C19: validateRequest accepts a request only if its x-hub-signature-256 header
   equals "sha256=" + hex HMAC-SHA-256 of the request body under the configured
   secret; for every other signature value, an absent one and one of another
   length included, the outcome is a 401 rejection (for a request that passes
   the earlier checks), never an exception or an accept. *)
C19_SignatureGate ==
    ingest.last.phase = "done" =>
        LET req == ingest.last.req
        IN  /\ ingest.last.valid => SignedByCore(req)
            /\ (~SignedByCore(req) /\ ingest.last.status \notin EarlyRejections) =>
                   (~ingest.last.valid /\ ingest.last.status = 401)

(* a row that records a permanent failure: a status that is neither a success
   nor retryable, or no status at all (no transport, unusable transport config) *)
PermanentRow(row) ==
    row.status_code # 200 /\ row.status_code \notin retryable_status_codes

(* C20: a delivery that fails permanently in processEvent or processRetry -- a
   non-retryable status, a subscriber without transport, an invalid transport
   configuration -- is recorded as one attempt row whose next_retry_at stays
   null, and no further attempt row is made for that (event, subscriber) pair. *)
C20_PermanentFailure ==
    /\ \A i \in Rows :
          PermanentRow(delivery_attempts[i]) =>
              /\ delivery_attempts[i].next_retry_at = NULL
              /\ \A j \in PairRows(delivery_attempts, delivery_attempts[i].event_id,
                                    delivery_attempts[i].subscriber_id) : j <= i
    /\ \A q \in 1..Len(requests) :
          (requests[q].event_id # NULL /\ requests[q].response # 0) =>
              \A s \in Matching(requests[q].event_type) :
                  (~HasTransport(s) \/ ~ValidConfig(s)) =>
                      Cardinality(PairRows(delivery_attempts, requests[q].event_id, s)) = 1

(* the task that tick t's processRetry is working on *)
CurrentTask(t) == ticks[t].batch[ticks[t].idx]

(* processRetry cannot deliver task: its subscriber is gone or has no transport *)
Undeliverable(task) ==
    task.subscriber_id \notin DOMAIN subscribers \/ ~HasTransport(task.subscriber_id)

(* tick t's processRetry goes on from the cleared schedule in this step *)
RetryProceeds(t) ==
    /\ ticks[t].pc = "cleared"
    /\ ticks'[t] # ticks[t]
    /\ crashes' = crashes

(* C21: processRetry for a task whose subscriber no longer exists (or has no
   transport) appends an attempt row with attempt_number = task.next_attempt,
   schedules no further retry, and does not leave the event pending with nothing
   scheduled for it. *)
C21_MissingSubscriber ==
    [][\A t \in DOMAIN ticks :
          (RetryProceeds(t) /\ Undeliverable(CurrentTask(t))) =>
              LET task == CurrentTask(t)
              IN  /\ \E i \in 1..Len(delivery_attempts') :
                        /\ delivery_attempts'[i].event_id = task.event_id
                        /\ delivery_attempts'[i].subscriber_id = task.subscriber_id
                        /\ delivery_attempts'[i].attempt_number = task.next_attempt
                        /\ delivery_attempts'[i].next_retry_at = NULL
                  /\ \/ events'[task.event_id].status # "pending"
                     \/ \E i \in 1..Len(delivery_attempts') :
                           /\ delivery_attempts'[i].event_id = task.event_id
                           /\ delivery_attempts'[i].next_retry_at # NULL
      ]_vars

(* processRetry cannot read what storeEvent stored for the task's event *)
Unreadable(task) == ~Decrypts(events[task.event_id].headers_data)

(* C22: when processRetry cannot parse the stored payload or decrypt the stored
   headers, the task is abandoned -- no delivery, no further retry -- and the
   event's status is set to failed. *)
C22_UnreadableEvent ==
    [][\A t \in DOMAIN ticks :
          (RetryProceeds(t) /\ ~Undeliverable(CurrentTask(t)) /\ Unreadable(CurrentTask(t))) =>
              LET task == CurrentTask(t)
              IN  /\ ~(ticks'[t].pc = "inflight" /\ ticks'[t].idx = ticks[t].idx)
                  /\ \A i \in PairRows(delivery_attempts', task.event_id, task.subscriber_id) :
                        delivery_attempts'[i].next_retry_at = NULL
                  /\ events'[task.event_id].status = "failed"
      ]_vars

(* the subscribers of request r whose deliverToSubscriber ends in this step: the
   ones whose transport returns, and at the request's start those without
   transport *)
Settled(r) ==
    IF r \in 1..Len(requests)
    THEN requests[r].inflight \ requests'[r].inflight
    ELSE IF requests'[r].event_id = NULL THEN {}
    ELSE Matching(requests'[r].event_type) \ requests'[r].inflight

ResultsOf(rs, r, s) ==
    IF r \in 1..Len(rs) THEN { x \in rs[r].results : x.subscriberId = s } ELSE {}

RowsOf(da, e, s) == [i \in PairRows(da, e, s) |-> da[i]]

(* C23: within processEvent the outcome recorded for one matching subscriber
   depends only on its own transport result: a step that settles one subscriber
   (a failure, a missing transport, an unusable config) leaves the attempt rows
   and the result entry of every other matching subscriber as they were and does
   not take a running delivery away, and a settled subscriber has exactly one
   result entry and one attempt row, which agree on success. *)
C23_Independent ==
    [][\A r \in 1..Len(requests') :
          requests'[r].event_id # NULL =>
              \A s \in Matching(requests'[r].event_type) :
                  LET e == requests'[r].event_id
                  IN  IF s \in Settled(r)
                      THEN /\ Cardinality(ResultsOf(requests', r, s)) = 1
                           /\ Cardinality(PairRows(delivery_attempts', e, s)) = 1
                           /\ \A x \in ResultsOf(requests', r, s) :
                                 \A i \in PairRows(delivery_attempts', e, s) :
                                    /\ x.success <=> delivery_attempts'[i].status_code = 200
                                    /\ x.nextRetryAt = delivery_attempts'[i].next_retry_at
                      ELSE /\ ResultsOf(requests', r, s) = ResultsOf(requests, r, s)
                           /\ RowsOf(delivery_attempts', e, s) = RowsOf(delivery_attempts, e, s)
                           /\ r \in 1..Len(requests) =>
                                 (s \in requests[r].inflight <=> s \in requests'[r].inflight)
      ]_vars

(* a finished push request with a delivered subscriber, a subscriber whose retry
   is scheduled, and a subscriber without transport *)
C23_Witness ==
    \E r \in 1..Len(requests) :
        /\ requests[r].response # 0
        /\ requests[r].event_id # NULL
        /\ \E x, y, z \in requests[r].results :
              /\ x.success
              /\ ~y.success /\ y.nextRetryAt # NULL
              /\ ~z.success /\ ~HasTransport(z.subscriberId)
        /\ \A s \in Matching(requests[r].event_type) :
              Cardinality(PairRows(delivery_attempts, requests[r].event_id, s)) = 1

(* the subscribers whose event list contains type *)
Listed(type) == { s \in DOMAIN subscribers : type \in Subscribed(subscribers[s]) }

(* C24: processEvent attempts delivery to exactly the subscribers whose event
   list contains event.type: when the request has been answered there is one
   attempt row for each of them and none for any other subscriber; when that set
   is empty the event is completed, has no attempt rows, and the result list is
   empty. *)
C24_ExactFanout ==
    \A r \in 1..Len(requests) :
        (requests[r].event_id # NULL /\ requests[r].response # 0) =>
            LET e == requests[r].event_id
                wanted == Listed(requests[r].event_type)
            IN  /\ \A s \in DOMAIN subscribers :
                      Cardinality(PairRows(delivery_attempts, e, s)) =
                          IF s \in wanted THEN 1 ELSE 0
                /\ { x.subscriberId : x \in requests[r].results } = wanted
                /\ wanted = {} => events[e].status = "completed"

(* this step is a call of the queue's method op *)
QueueCall(op) == queue'.calls = queue.calls + 1 /\ queue'.last.op = op

(* the ids that the receive of this step returns *)
Got == { queue'.last.result[k].id : k \in 1..Len(queue'.last.result) }

(* the receive of this step returns fewer messages than it was asked for *)
HasRoom == Len(queue'.last.result) < OrDefault(queue'.last.ms, 1)

(* C25: a message that was received and not deleted is receivable again once its
   visibility timeout has elapsed: a receive() at or after its visibleAt that has
   room returns it. *)
C25_Redelivery ==
    [][QueueCall("receive") =>
          \A i \in 1..Len(queue.messages) :
              (queue.returns[queue.messages[i].id] > 0
                  /\ queue.messages[i].visibleAt <= now /\ HasRoom) =>
                  queue.messages[i].id \in Got
      ]_vars

(* message msg is under a lease at time clock: receive returned it, and its
   visibility timeout has not elapsed *)
Leased(q, msg, clock) == q.returns[msg.id] > 0 /\ msg.visibleAt > clock

(* C26: between a receive() that returned m and the end of its visibility
   timeout (or its delete), no other receive() returns m. *)
C26_LeaseExclusive ==
    [][QueueCall("receive") =>
          \A i \in 1..Len(queue.messages) :
              Leased(queue, queue.messages[i], now) => queue.messages[i].id \notin Got
      ]_vars

(* a receive that returned one message and passed over another that is leased *)
C26_Witness ==
    /\ queue.phase = "open"
    /\ queue.last.op = "receive"
    /\ Len(queue.last.result) = 1
    /\ \E i \in 1..Len(queue.messages) :
          /\ Leased(queue, queue.messages[i], now)
          /\ queue.messages[i].attempts = 1
          /\ queue.messages[i].id # queue.last.result[1].id
          /\ queue.messages[i].id < queue.last.result[1].id

(* C27: after changeVisibility(id, 0) on a leased message, the next receive()
   returns that message (when it has room for it). *)
C27_ReleasedLease ==
    [][(QueueCall("receive") /\ queue.last.op = "changeVisibility" /\ queue.last.ms = 0
           /\ queue.last.id \in Ids(queue.messages) /\ HasRoom) =>
          queue.last.id \in Got
      ]_vars

(* C28: a message sent with delayMs = d > 0 is returned by no receive() before
   send time + d, and a message sent without delay is returned by the first
   receive() that has room for it. *)
C28_Delay ==
    [][QueueCall("receive") =>
          /\ \A id \in Got : now >= queue.sent[id].at + queue.sent[id].delayMs
          /\ \A i \in 1..Len(queue.messages) :
                (queue.sent[queue.messages[i].id].delayMs = 0
                    /\ queue.returns[queue.messages[i].id] = 0 /\ HasRoom) =>
                    queue.messages[i].id \in Got
      ]_vars

(* a receive that returned a message sent without delay and passed over an
   earlier message whose delay had not ended; a later receive returned that one *)
C28_Witness ==
    /\ queue.phase = "open"
    /\ queue.last.op = "receive"
    /\ Len(queue.sent) = 2
    /\ queue.sent[1].delayMs > 0
    /\ queue.sent[2].delayMs = 0
    /\ queue.returns = <<1, 1>>
    /\ Len(queue.last.result) = 1
    /\ queue.last.result[1].id = 1
    /\ \E i \in 1..Len(queue.messages) :
          queue.messages[i].id = 2 /\ queue.messages[i].timestamp < now

(* the sum of getStats' counts of the stored messages *)
Counted(q, clock) == getStats(q, clock).approximate + getStats(q, clock).inFlight

(* C29: every entry that receive() returns carries the id that send returned
   for it and the data that was sent, and a receive() right after send(m) that
   has room returns m; after delete(id) no receive() returns that message and
   getStats no longer counts it. *)
C29_RoundTrip ==
    [][/\ QueueCall("receive") =>
              /\ \A k \in 1..Len(queue'.last.result) :
                    LET entry == queue'.last.result[k]
                    IN  /\ entry.id \in 1..Len(queue.sent)
                        /\ entry.data = queue.sent[entry.id].data
                        /\ entry.id \notin queue.deleted
              /\ (queue.last.op = "send" /\ queue.last.ms = 0 /\ HasRoom) =>
                    queue.last.id \in Got
       /\ QueueCall("delete") =>
              LET id == queue'.last.id
              IN  /\ id \notin Ids(queue'.messages)
                  /\ Counted(queue', now') =
                        Counted(queue, now) - (IF id \in Ids(queue.messages) THEN 1 ELSE 0)
                  /\ getStats(queue', now').inFlight =
                        getStats(queue, now).inFlight - (IF id \in queue.inFlight THEN 1 ELSE 0)
      ]_vars

(* send, receive, delete of one message, and a later receive that returned the
   other message *)
C29_Witness ==
    /\ queue.phase = "open"
    /\ queue.deleted = {1}
    /\ queue.last.op = "receive"
    /\ Len(queue.last.result) = 1
    /\ queue.last.result[1].id = 2
    /\ queue.last.result[1].data = queue.sent[2].data
    /\ queue.sent[1].data # queue.sent[2].data
    /\ getStats(queue, now) = [approximate |-> 0, inFlight |-> 1, delayed |-> 1]

(* C30: the attempts value that receive() returns with a message is the number
   of times receive() has returned that message so far, and maxAttempts is the
   configured maxRetries. *)
C30_Attempts ==
    [][QueueCall("receive") =>
          \A k \in 1..Len(queue'.last.result) :
              LET entry == queue'.last.result[k]
              IN  /\ entry.attempts = queue'.returns[entry.id]
                  /\ queue.given.maxRetries # Absent =>
                        entry.maxAttempts = queue.given.maxRetries
      ]_vars

Returned(r) ==
    /\ requests'[r].event_id # NULL
    /\ requests'[r].response # 0
    /\ r \in 1..Len(requests) => requests[r].response = 0

(* C35: in the step in which processEvent returns, the event's status is
   completed iff every matching subscriber has a successful result, pending iff
   some result failed and a failed one carries nextRetryAt, failed otherwise; and
   in the step that settles a subscriber its result carries nextRetryAt exactly
   when that step wrote a retry time on the subscriber's attempt row. *)
C35_StatusOnReturn ==
    [][\A r \in 1..Len(requests') :
          LET e == requests'[r].event_id
              results == requests'[r].results
              delivered == \A s \in Matching(requests'[r].event_type) :
                              \E x \in results : x.subscriberId = s /\ x.success
              retried == \E x \in results : ~x.success /\ x.nextRetryAt # NULL
          IN  /\ Returned(r) =>
                    /\ events'[e].status = "completed" <=> delivered
                    /\ events'[e].status = "pending" <=> (~delivered /\ retried)
                    /\ events'[e].status = "failed" <=> (~delivered /\ ~retried)
              /\ e # NULL =>
                    \A s \in Settled(r) :
                        \A x \in ResultsOf(requests', r, s) :
                            x.nextRetryAt # NULL <=>
                                \E i \in PairRows(delivery_attempts', e, s) :
                                    /\ delivery_attempts'[i].next_retry_at = x.nextRetryAt
                                    /\ delivery_attempts'[i].next_retry_at # NULL
      ]_vars

(* a returned request of a pending event: one subscriber delivered, one failed
   with its retry still on its attempt row *)
C35_Witness ==
    \E r \in 1..Len(requests) :
        /\ requests[r].event_id # NULL
        /\ requests[r].response # 0
        /\ events[requests[r].event_id].status = "pending"
        /\ \E x, y \in requests[r].results :
              /\ x.success
              /\ ~y.success /\ y.nextRetryAt # NULL
              /\ \E i \in PairRows(delivery_attempts, requests[r].event_id, y.subscriberId) :
                    delivery_attempts[i].next_retry_at = y.nextRetryAt

(* work in progress for event e: its processEvent has not returned, or a
   running processRetries still holds a task of it *)
InProgress(e) ==
    \/ \E r \in 1..Len(requests) : requests[r].event_id = e /\ requests[r].response = 0
    \/ \E t \in DOMAIN ticks :
          /\ ticks[t].pc # "idle"
          /\ \E k \in ticks[t].idx..Len(ticks[t].batch) : ticks[t].batch[k].event_id = e

(* C37: no reachable state has an event in pending or processing with no attempt
   row carrying next_retry_at and no work in progress for it (such an event can
   never reach completed, failed or dead_letter). *)
C37_NoStuckEvent ==
    \A e \in 1..Len(events) :
        events[e].status \in {"pending", "processing"} =>
            \/ InProgress(e)
            \/ \E i \in 1..Len(delivery_attempts) :
                  /\ delivery_attempts[i].event_id = e
                  /\ delivery_attempts[i].next_retry_at # NULL

(* C36: for every (event, subscriber) pair the number of attempt rows never
   exceeds max_attempts, and no row with attempt_number >= max_attempts carries
   a next_retry_at. *)
C36_AttemptsBounded ==
    /\ \A e \in 1..Len(events), s \in Subscribers :
          Cardinality(PairRows(delivery_attempts, e, s)) <= max_attempts
    /\ \A i \in 1..Len(delivery_attempts) :
          delivery_attempts[i].attempt_number >= max_attempts =>
              delivery_attempts[i].next_retry_at = NULL

(* C33: a poll returns a row only if its next_retry_at is non-null and not later
   than the poll time, returns rows in ascending next_retry_at order, and returns
   at most the limit (batch_size) rows. *)
C33_DueOnly ==
    poll.phase = "out" =>
        /\ \A k \in 1..Len(poll.batch) :
              LET row == poll.table[poll.batch[k].row]
              IN  row.next_retry_at # NULL /\ row.next_retry_at <= poll.clock
        /\ \A j, k \in 1..Len(poll.batch) :
              j < k => poll.table[poll.batch[j].row].next_retry_at
                          <= poll.table[poll.batch[k].row].next_retry_at
        /\ Len(poll.batch) <= poll.limit

(* the entries of the validation log that reached the rate-limit check for ip *)
Limited(log, ip) == { j \in 1..Len(log) : log[j].ip = ip /\ log[j].statusCode # 403 }

(* the entry that opened the window entry k falls into: k itself when no
   earlier entry of its ip exists or when k comes RateWindow or more after the
   opening of the previous entry's window *)
RECURSIVE WindowOf(_, _)
WindowOf(log, k) ==
    LET earlier == { j \in Limited(log, log[k].ip) : j < k }
    IN  IF earlier = {} THEN k
        ELSE LET prev == CHOOSE j \in earlier : \A i \in earlier : i <= j
                 w == WindowOf(log, prev)
             IN  IF log[k].at >= log[w].at + RateWindow THEN k ELSE w

(* entry k is the n-th request of its window *)
PositionInWindow(log, k) ==
    Cardinality({ j \in Limited(log, log[k].ip) :
                    j <= k /\ WindowOf(log, j) = WindowOf(log, k) })

(* C39: with rate limiting enabled, the n-th request of a client ip's window
   that reaches the rate-limit check is answered 429 exactly when
   n > requests_per_minute; a window is RateWindow long and the first request at
   or after its end opens the next one with count 1; requests refused by the ip
   allowlist (403) are not counted. *)
C39_RateLimit ==
    \A k \in 1..Len(ingest.log) :
        ingest.log[k].statusCode # 403 =>
            (ingest.log[k].statusCode = 429 <=>
                PositionInWindow(ingest.log, k) > ingest.security.requests_per_minute)

(* this step is a getSubscribers() call of the process *)
Gets == service.phase = "open" /\ service'.calls = service.calls + 1 /\ service'.last.op = "get"

(* C31: a getSubscribers() that follows a returned createSubscriber,
   updateSubscriber or deleteSubscriber returns the stored state (what a fetch
   from the tables gives), and a getSubscribers() that follows a getSubscribers()
   returns the same list again, whatever was written to the tables meanwhile. *)
C31_CacheCoherent ==
    [][Gets =>
          /\ (service.last.op \in {"create", "update", "delete"} /\ ~service.last.thrown) =>
                service'.last.result = fetchSubscribers(service)
          /\ service.last.op = "get" => service'.last.result = service.last.result
      ]_vars

(* a second getSubscribers() in a row returned the cached list with a created
   subscriber, while the tables hold something else by now *)
C31_Witness ==
    /\ service.phase = "open"
    /\ service.last.op = "get"
    /\ service.calls >= 3
    /\ DOMAIN service.last.result # {}
    /\ service.last.result # fetchSubscribers(service)

(* C32: every transports row references an existing subscriber, a subscriber has
   at most one transports row, and after deleteSubscriber(id) neither the
   subscriber id nor a transports row of it exists. *)
C32_TransportsConsistent ==
    service.phase = "open" =>
        /\ \A t \in service.transports : t.subscriber_id \in DOMAIN service.subscribers
        /\ \A t, u \in service.transports : t.subscriber_id = u.subscriber_id => t = u
        /\ service.last.op = "delete" =>
              /\ service.last.id \notin DOMAIN service.subscribers
              /\ TransportsOf(service, service.last.id) = {}

(* a created subscriber was deleted with its transports row, after an update of
   an id that does not exist was refused *)
C32_Witness ==
    /\ service.phase = "open"
    /\ service.last.op = "delete"
    /\ service.last.id <= service.sequence.subscribers
    /\ service.sequence.transports > 0
    /\ service.transports = {}
    /\ service.subscribers = <<>>

(* C40: the list getSubscribers() fetches holds, for a subscriber whose events
   were last written by createSubscriber or updateSubscriber, exactly the events
   that call was given. *)
C40_EventsRoundTrip ==
    [][(Gets /\ service._subscribers = NoCache) =>
          \A id \in DOMAIN service'.last.result :
              service.written[id].by \in {"create", "update"} =>
                  service'.last.result[id].events = Subscribed(service.written[id])
      ]_vars

(* C34: decryptHeaders of what encryptHeaders(h) returned gives h back under the
   same key, and decryptHeaders of any other string -- one of its fields changed,
   or read under another key -- fails instead of returning a header map. *)
C34_RoundTrip ==
    crypt.phase = "out" =>
        IF crypt.damage = "none" /\ crypt.readKey = crypt.key
        THEN crypt.result.ok /\ crypt.result.headers = crypt.headers
        ELSE ~crypt.result.ok

(* the ids receive() has returned so far *)
ReturnedIds == { adapter.returned[k].id : k \in 1..Len(adapter.returned) }

BufferedIds == { adapter.messageBuffer[k] : k \in 1..Len(adapter.messageBuffer) }

(* C38: a message sent with a delay through the Kafka, Redis or Event Hub
   adapter is not returned by receive() before its delay has elapsed, and is not
   dropped: once the broker has handed it to the adapter it is in the adapter's
   buffer or has been returned by receive() (the broker hands a message over
   once, so anything else can never be returned). *)
C38_DelayedNotDropped ==
    adapter.phase = "open" =>
        /\ \A k \in 1..Len(adapter.returned) :
              LET msg == adapter.topic[adapter.returned[k].id]
              IN  msg.delayUntil # NULL => adapter.returned[k].at >= msg.delayUntil
        /\ \A id \in 1..adapter.cursor :
              adapter.topic[id].delayUntil # NULL =>
                  id \in ReturnedIds \cup BufferedIds

====
